---- MODULE Spec2Model ----
(***************************************************************************)
(* State-machine model of the Cymbal Cyber ADK agent: the escalation       *)
(* mailbox protocol (tools.escalate_to_human), the audit writes            *)
(* (tools.log_false_positive, tools.log_human_decision), ticket ids        *)
(* (tools.create_rich_ticket_id), the adapter's run of the workflow        *)
(* (CymbalCyberAdapter.stream_query) with the join of the two gatherers    *)
(* before the decision agent, the DML guard (agent.forbidden_dml_check)    *)
(* and the get-or-create of ImplicitSessionService.get_session.            *)
(*                                                                         *)
(* Text is modelled as follows.  A Python str that is used as a name or a  *)
(* message is a TLA+ string.  A str or blob that the code hands to         *)
(* json.loads is a record [type, fields]: type "object" (a JSON object     *)
(* with the given fields), "array" (valid JSON that is not an object) or   *)
(* "invalid" (not JSON).  A str the code scans character by character      *)
(* (the user_id of create_rich_ticket_id, the inbound text of stream_query, *)
(* the query of forbidden_dml_check) is a sequence of one-character        *)
(* strings.  Python's None is the value None below.                        *)
(***************************************************************************)
EXTENDS Integers, Sequences, FiniteSets, TLC

(* ------------------------------ bounds -------------------------------- *)

\* Seconds that may pass outside time.sleep in one behaviour (latency of the
\* store, of BigQuery, of the model, and oversleeping).
MaxLag == 1

\* Number of response objects the approver writes in one behaviour.
MaxWrites == 2

\* Number of tool invocations in the tool-level specifications.
MaxCalls == 3

\* Number of get_session calls of one caller.
MaxGets == 2

\* Number of stream_query invocations.
MaxInvocations == 2

(* ------------------------- program constants -------------------------- *)

timeout_seconds == 300

poll_interval == 2

None == "<None>"

TIMEOUT_DECISION == "Event not categorized in time"

TIMEOUT_RESULT == "Human review timed out after 5 minutes. Event logged as 'Event not categorized in time'."

HumanResult(human_decision) ==
    "Human Approver responded with '" \o human_decision \o "'. Decision has been logged to BigQuery."

FP_OK_RESULT == "Successfully logged the alert as a false positive."

ERROR_PREFIX == "Error processing request: "

(* ------------------------------- JSON --------------------------------- *)

JsonObject(f) == [type |-> "object", fields |-> f]

JsonArray == [type |-> "array", fields |-> <<>>]

NotJson == [type |-> "invalid", fields |-> <<>>]

\* No text (a variable not yet assigned).
NoText == [type |-> "none", fields |-> <<>>]

\* json.dumps of a dict of strings: the text of that object.
json_dumps(d) == JsonObject(d)

\* json.loads(text) raises JSONDecodeError exactly on text that is not JSON.
JsonDecodes(text) == text.type # "invalid"

\* dict.get(key, default) on the value json.loads returned; only a dict has get.
HasGet(text) == text.type = "object"

DictGet(text, key, default) ==
    IF key \in DOMAIN text.fields THEN text.fields[key] ELSE default

\* Python truthiness of the scalars used here, and "a or b".
Truthy(v) == v \notin {None, "", "0"}

PyOr(a, b) == IF Truthy(a) THEN a ELSE b

(* --------------------------- input domains ---------------------------- *)

\* Alert payload strings handed to the workflow.
Alerts ==
    { JsonObject(("user_id" :> "u.lewis") @@ ("device_id" :> "dev-1")
                 @@ ("source_ip" :> "203.0.113.7")
                 @@ ("total_2_min_threat_score" :> "3000")
                 @@ ("window_end" :> "2025-01-01T00:02:00Z")),
      NotJson }

\* Alert payload arguments of the directly invoked audit tools.
ToolAlerts == Alerts \cup { JsonObject(("threat_score" :> "300")), JsonArray }

\* What the approver may put into the response object.
Responses ==
    { JsonObject(("human_decision" :> "Confirmed Threat") @@ ("human_comment" :> "seen")),
      JsonObject(("human_comment" :> "no verdict")),
      JsonArray,
      NotJson }

WellFormed(text) == JsonDecodes(text) /\ HasGet(text)

\* user_id arguments the decision agent passes to create_rich_ticket_id in a
\* workflow run: the alert's user, or nothing.
AgentUserIds == { <<"u", ".", "l">>, << >> }

\* user_id arguments of the directly invoked create_rich_ticket_id.
UserIdArgs ==
    AgentUserIds \cup { <<"u", ".", "l", "!", "x">>, <<"{", "u">> }

\* user_id arguments of create_rich_ticket_id: user names, nothing, a JSON
\* string, and texts with other characters at the start and further on.
UserIdTexts ==
    UserIdArgs \cup
    { <<"{","\"","u","s","e","r","_","i","d","\"",":"," ","\"","u",".","l","\"","}">>,
      <<"U","9",".","z","-","1">>,
      <<"_","x">>,
      <<" ","u">>,
      <<".",".","/","e","t","c">>,
      <<"a","\n","b">> }

AGENT_REASON == "corroborated suspicious activity"

AGENT_COMMENT == "isolated benign event"

CONTEXT_DATA == "### Security Incident Report"

(* ------------------------------ tickets ------------------------------- *)

Lower == {"a","b","c","d","e","f","g","h","i","j","k","l","m",
          "n","o","p","q","r","s","t","u","v","w","x","y","z"}

Upper == {"A","B","C","D","E","F","G","H","I","J","K","L","M",
          "N","O","P","Q","R","S","T","U","V","W","X","Y","Z"}

Digit == {"0","1","2","3","4","5","6","7","8","9"}

\* The character class [a-zA-Z0-9\.] of the ticket regex.
IdChar(c) == c \in Lower \cup Upper \cup Digit \cup {"."}

\* re.match(r"^[a-zA-Z0-9\.]+", s): the longest leading run of class characters.
RECURSIVE LeadingRun(_)
LeadingRun(s) ==
    IF s = << >> \/ ~IdChar(Head(s)) THEN << >>
    ELSE <<Head(s)>> \o LeadingRun(Tail(s))

RECURSIVE Join(_)
Join(s) == IF s = << >> THEN "" ELSE Head(s) \o Join(Tail(s))

\* clean_user without the regex: the whole input (a faulty variant, used to
\* test C34).
clean_user_whole(user_id) ==
    IF user_id = << >> THEN "unknown_user" ELSE Join(user_id)

clean_user(user_id) ==
    IF user_id = << >> THEN "unknown_user"
    ELSE IF LeadingRun(user_id) # << >> THEN Join(LeadingRun(user_id))
    ELSE "invalid_id"

\* create_rich_ticket_id(user_id) called when int(time.time()) = t.
create_rich_ticket_id(user_id, t) ==
    "ticket-" \o clean_user(user_id) \o "-" \o ToString(t)

\* request_filename with the ticket id left out of the name (a faulty variant,
\* used to test C21).
request_filename_shared(ticket) == "human_escalation_information.json"

request_filename(ticket) == "human_escalation_information_" \o ticket \o ".json"

response_filename(ticket) == "human_escalation_response_" \o ticket \o ".json"

(* ------------------------------ adapter ------------------------------- *)

\* The character class [\w-] of the adapter's ticket regex (ASCII part).
TicketChar(c) == c \in Lower \cup Upper \cup Digit \cup {"_", "-"}

TICKET_ID_IS == <<"T","i","c","k","e","t"," ","I","D"," ","i","s"," ">>

StartsWith(s, prefix) ==
    Len(s) >= Len(prefix) /\ SubSeq(s, 1, Len(prefix)) = prefix

\* The longest leading run of [\w-] characters.
RECURSIVE TicketRun(_)
TicketRun(s) ==
    IF s = << >> \/ ~TicketChar(Head(s)) THEN << >>
    ELSE <<Head(s)>> \o TicketRun(Tail(s))

\* re.search(r"Ticket ID is ([\w-]+)", raw_text): group(1) of the leftmost
\* match, << >> when there is no match.
RECURSIVE ticket_match(_)
ticket_match(raw_text) ==
    IF raw_text = << >> THEN << >>
    ELSE IF /\ StartsWith(raw_text, TICKET_ID_IS)
            /\ TicketRun(SubSeq(raw_text, Len(TICKET_ID_IS) + 1, Len(raw_text))) # << >>
         THEN TicketRun(SubSeq(raw_text, Len(TICKET_ID_IS) + 1, Len(raw_text)))
         ELSE ticket_match(Tail(raw_text))

\* str.rfind in place of str.find (a faulty variant, used to test C25).
rfind(s, c) ==
    IF \E i \in 1..Len(s) : s[i] = c
    THEN (CHOOSE i \in 1..Len(s) : s[i] = c /\ \A j \in (i + 1)..Len(s) : s[j] # c) - 1
    ELSE -1

\* str.find(c): the 0-based index of the first c, -1 when there is none.
find(s, c) ==
    IF \E i \in 1..Len(s) : s[i] = c
    THEN (CHOOSE i \in 1..Len(s) : s[i] = c /\ \A j \in 1..(i - 1) : s[j] # c) - 1
    ELSE -1

\* stream_query, step 2.B: the text from the first '{' on, or the whole text.
clean_payload(raw_text) ==
    LET json_start_index == find(raw_text, "{")
    IN  IF json_start_index # -1
        THEN SubSeq(raw_text, json_start_index + 1, Len(raw_text))
        ELSE raw_text

\* The texts of the 'text' part of the inbound message.
RawTexts ==
    { <<"T","i","c","k","e","t"," ","I","D"," ","i","s"," ","t","i","c","k",
        "e","t","-","p","u","b","s","u","b","."," ","{","}">>,
      <<"T","i","c","k","e","t"," ","I","D"," ","i","s"," ","t","i","c","k",
        "e","t","-","u","n","k","n","o","w","n","_","u","s","e","r",
        "-","0"," ","{","}">>,
      <<"{","}">>,
      << >>,
      <<"T","i","c","k","e","t"," ","I","D"," ","i","s"," ","{","x">>,
      <<"a","{","b","{","c","}">>,
      <<"n","o"," ","j","s","o","n">>,
      <<"}","{">> }

\* What json.loads makes of a payload: of the payloads clean_payload cuts out
\* of RawTexts only "{}" is JSON.
AlertText(payload) ==
    IF payload = <<"{", "}">> THEN JsonObject(<< >>) ELSE NotJson

\* Values of uuid.uuid4().hex[:12].
Uuid12 == {"0f3a9c1b2d4e", "a1b2c3d4e5f6"}

(* --------------------------- stream_query ----------------------------- *)

\* Shapes of the message argument: a value that is no dict, a dict without
\* 'parts', with an empty list, with parts that are no list, with a first part
\* that has no 'text', that is no dict, whose text is None, or that has text.
MessageKinds ==
    { "not_dict", "no_parts", "empty_parts", "parts_not_list", "part_without_text",
      "part_not_dict", "text_none" }

Messages ==
    [ kind : MessageKinds, text : {<< >>} ]
    \cup [ kind : {"text"},
           text : { <<"{","}">>,
                    <<"T","i","c","k","e","t"," ","I","D"," ","i","s"," ","t","i","c","k",
                      "e","t","-","p","u","b","s","u","b","."," ","{","}">> } ]

\* Step 1 of stream_query: raw_text, or the exception raised on the way
\* (parts[0].get on a part that is no dict; re.search on a text that is None).
extract_text(m) ==
    IF m.kind = "part_not_dict" THEN [raised |-> "AttributeError", raw_text |-> << >>]
    ELSE IF m.kind = "text_none" THEN [raised |-> "TypeError", raw_text |-> << >>]
    ELSE [raised |-> "", raw_text |-> m.text]

\* Values of uuid.uuid4().hex[:8].
Uuid8 == {"0f3a9c1b", "a1b2c3d4"}

\* Where a backend call of the invocation fails, if one does.
Failures == {"none", "create_session", "run_async"}

\* The exceptions that are instances of Exception.
Exceptions == {"AttributeError", "TypeError", "AlreadyExistsError", "SessionError", "AgentError"}

FINAL_RESPONSE == "final response"

\* The session service with one module-level instance used by every
\* invocation (a faulty variant, used to test C37).
session_service_shared(previous) ==
    IF previous = << >> THEN << >> ELSE previous[Len(previous)].session_service

\* session_service = InMemorySessionService(): a new instance without
\* sessions, whatever the earlier invocations did.
session_service(previous) == << >>

\* What one invocation of stream_query does, given the earlier invocations:
\* the exception raised inside the try block ("" when none), the session it
\* created, the content of its session service, the texts it yielded, and
\* whether an exception left the generator.
stream_query_outcome(m, uuid12, uuid8, failure, previous) ==
    LET raw     == extract_text(m)
        ticket  == IF ticket_match(raw.raw_text) # << >>
                   THEN Join(ticket_match(raw.raw_text)) ELSE "ticket-" \o uuid12
        sid     == "bq_cq_app_v001-" \o uuid8
        service == session_service(previous)
        exc     == IF raw.raised # "" THEN raw.raised
                   ELSE IF sid \in DOMAIN service THEN "AlreadyExistsError"
                   ELSE IF failure = "create_session" THEN "SessionError"
                   ELSE IF failure = "run_async" THEN "AgentError"
                   ELSE ""
        created == raw.raised = "" /\ sid \notin DOMAIN service /\ failure # "create_session"
    IN  [ message |-> m,
          failure |-> failure,
          raised |-> exc,
          session_id |-> IF raw.raised = "" THEN sid ELSE None,
          session_service |-> IF created
                              THEN (sid :> [ticket_id |-> ticket]) @@ service
                              ELSE IF raw.raised = "" THEN service ELSE << >>,
          new_message |-> IF exc = "" \/ exc = "AgentError"
                          THEN clean_payload(raw.raw_text) ELSE << >>,
          yielded |-> IF exc = "" THEN << FINAL_RESPONSE >>
                      ELSE IF exc \in Exceptions THEN << ERROR_PREFIX \o exc >>
                      ELSE << >>,
          propagated |-> exc # "" /\ exc \notin Exceptions ]

(* ------------------------------ DML guard ----------------------------- *)

LowerSeq == <<"a","b","c","d","e","f","g","h","i","j","k","l","m",
              "n","o","p","q","r","s","t","u","v","w","x","y","z">>

UpperSeq == <<"A","B","C","D","E","F","G","H","I","J","K","L","M",
              "N","O","P","Q","R","S","T","U","V","W","X","Y","Z">>

\* str.upper() on one (ASCII) character, and on a str.
upper_char(c) ==
    IF c \in Lower THEN UpperSeq[CHOOSE i \in DOMAIN LowerSeq : LowerSeq[i] = c] ELSE c

upper(s) == [i \in 1..Len(s) |-> upper_char(s[i])]

\* The characters str.strip() removes (those that occur in the queries below).
Whitespace == {" ", "\t", "\n"}

RECURSIVE lstrip(_)
lstrip(s) == IF s # << >> /\ Head(s) \in Whitespace THEN lstrip(Tail(s)) ELSE s

RECURSIVE rstrip(_)
rstrip(s) ==
    IF s # << >> /\ s[Len(s)] \in Whitespace THEN rstrip(SubSeq(s, 1, Len(s) - 1)) ELSE s

strip(s) == rstrip(lstrip(s))

\* The character class \w (ASCII part).
WordChar(c) == c \in Lower \cup Upper \cup Digit \cup {"_"}

\* re.match of the keyword without the closing \b (a faulty variant, used to
\* test C35).
re_match_prefix(keyword, s) == StartsWith(s, keyword)

\* re.match(rf'\b{keyword}\b', s) for a keyword of word characters: s starts
\* with the keyword, and the keyword ends the string or a non-word character
\* follows it.
re_match_keyword(keyword, s) ==
    /\ StartsWith(s, keyword)
    /\ Len(s) = Len(keyword) \/ ~WordChar(s[Len(keyword) + 1])

forbidden_dml == { <<"U","P","D","A","T","E">>,
                   <<"D","E","L","E","T","E">>,
                   <<"M","E","R","G","E">>,
                   <<"T","R","U","N","C","A","T","E">> }

DML_BLOCKED == "Tool execution was blocked by before_tool_callback due to a DML statement."

\* sql_query.upper().strip() with the upper() left out (a faulty variant, used
\* to test C14).
normalized_query_case_sensitive(sql_query) == strip(sql_query)

normalized_query(sql_query) == strip(upper(sql_query))

\* forbidden_dml_check(tool, args, tool_context) for a tool of the given name:
\* the text of the result dict it returns, or None.  args is the dict of the
\* call's arguments, a function from argument names to strs.
forbidden_dml_check(tool, args) ==
    IF /\ tool = "execute_sql"
       /\ "query" \in DOMAIN args
       /\ args["query"] # << >>
       /\ \E keyword \in forbidden_dml :
             re_match_keyword(keyword, normalized_query(args["query"]))
    THEN DML_BLOCKED
    ELSE None

\* Names of tools of the two agents that have the callback.
ToolNames == {"execute_sql", "get_table_info"}

\* query arguments of tool calls.
Queries ==
    { <<"u","p","d","a","t","e"," ","t">>,
      <<" ","D","e","L","e","T","e"," ","x">>,
      <<"\n","\t","m","e","r","g","e">>,
      <<"T","R","U","N","C","A","T","E"," ","t"," ">>,
      <<"D","e","l","e","t","e",";">>,
      <<"s","e","l","e","c","t"," ","1">>,
      <<"u","p","d","a","t","e","s"," ","t">>,
      <<"d","e","l","e","t","e","_","x">>,
      <<"d","r","o","p"," ","t">>,
      << >>,
      <<"x"," ","d","e","l","e","t","e">>,
      <<"i","n","s","e","r","t"," ","t">>,
      <<"(","d","e","l","e","t","e"," ","t",")">> }

\* Argument dicts of tool calls: with a query, or without one.
ToolArgs == { ("query" :> q) : q \in Queries } \cup { << >> }

(* ----------------------------- audit rows ----------------------------- *)

\* EmptyRow keeping the payload only when it parses (a faulty variant, used to
\* test C26).
EmptyRow_parsed_only(alert_payload_str) ==
    [ transaction_window_end |-> None,
      user_id |-> None,
      device_id |-> None,
      source_ip |-> None,
      total_2_min_threat_score |-> None,
      alert_payload |-> IF JsonDecodes(alert_payload_str) /\ HasGet(alert_payload_str)
                        THEN alert_payload_str ELSE NoText,
      agent_decision |-> None,
      agent_reason |-> None,
      human_decision |-> None,
      human_reason |-> None ]

EmptyRow(alert_payload_str) ==
    [ transaction_window_end |-> None,
      user_id |-> None,
      device_id |-> None,
      source_ip |-> None,
      total_2_min_threat_score |-> None,
      alert_payload |-> alert_payload_str,
      agent_decision |-> None,
      agent_reason |-> None,
      human_decision |-> None,
      human_reason |-> None ]

_parse_alert_payload_to_row(s) ==
    LET row == EmptyRow(s)
        ts  == PyOr(DictGet(s, "window_end", None),
                    DictGet(s, "transaction_window_end", None))
    IN  IF JsonDecodes(s) /\ HasGet(s)
        THEN [ row EXCEPT
                 !.user_id = PyOr(DictGet(s, "user", None), DictGet(s, "user_id", None)),
                 !.device_id = PyOr(DictGet(s, "device", None), DictGet(s, "device_id", None)),
                 !.source_ip = PyOr(DictGet(s, "ip_address", None), DictGet(s, "source_ip", None)),
                 !.total_2_min_threat_score =
                     PyOr(DictGet(s, "threat_score", None),
                          DictGet(s, "total_2_min_threat_score", None)),
                 !.transaction_window_end = IF Truthy(ts) THEN ts ELSE None ]
        ELSE row

FalsePositiveRow(alert, agent_comment) ==
    [ _parse_alert_payload_to_row(alert) EXCEPT
        !.agent_decision = "FALSE_POSITIVE",
        !.agent_reason = agent_comment,
        !.human_decision = None,
        !.human_reason = None ]

\* HumanDecisionRow with the approver's two answers exchanged (a faulty
\* variant, used to test C19).
HumanDecisionRow_exchanged(alert, decision, comment, agent_reason) ==
    [ _parse_alert_payload_to_row(alert) EXCEPT
        !.agent_decision = "PERCEIVED_THREAT",
        !.agent_reason = agent_reason,
        !.human_decision = comment,
        !.human_reason = decision ]

HumanDecisionRow(alert, decision, comment, agent_reason) ==
    [ _parse_alert_payload_to_row(alert) EXCEPT
        !.agent_decision = "PERCEIVED_THREAT",
        !.agent_reason = agent_reason,
        !.human_decision = decision,
        !.human_reason = comment ]

(* ------------------------------ workflow ------------------------------ *)

\* investigation_agent.sub_agents: the two evidence gatherers.
Gatherers == {"bq_investigation_agent", "google_search_agent"}

\* The LLM agents under root_agent.
AgentNames == Gatherers \cup {"decision_agent"}

(* ------------------------------ sessions ------------------------------ *)

\* Concurrent callers of ImplicitSessionService.get_session for one (app, user).
Callers == {"c1", "c2"}

\* A caller that is not inside get_session and has not called it yet.  pc,
\* sessions_list and session are the position and the locals of its call
\* (session 0: nothing returned yet); n, overlapped and empty_seen are history:
\* the number of its calls, whether one of them overlapped a call of the other
\* caller, whether one of them got an empty listing.
NoCall ==
    [ pc |-> "idle", sessions_list |-> << >>, session |-> 0, session_id |-> 0,
      n |-> 0, overlapped |-> FALSE, empty_seen |-> FALSE ]

\* session_id arguments of get_session: an id no session has (0), the ids
\* the user's sessions get (1, 2), and the id of a session of another user.
SessionIds == {0, 1, 2, 99}

\* The sessions of a list_sessions response for the stored sessions ss: the
\* proxied service returns them in an order of its own.
Listings(ss) ==
    { l \in [1..Len(ss) -> {ss[i] : i \in DOMAIN ss}] :
        {l[i] : i \in DOMAIN l} = {ss[i] : i \in DOMAIN ss} }

(* ----------------------- evidence and report tools -------------------- *)

\* gcs_uri values handed to the tools: a URI, nothing, and the text
\* get_gcs_uri_for_user returns when it finds no row.
GCS_URI == "gs://cymbal-evidence/u.lewis.png"

NO_EVIDENCE == "No recent high-risk events with associated visual evidence found for this user."

UriArgs == {GCS_URI, "", NO_EVIDENCE}

\* not gcs_uri or not gcs_uri.startswith("gs://"), on UriArgs.
InvalidUri(gcs_uri) == gcs_uri = "" \/ gcs_uri # GCS_URI

\* What the backend of a tool call does: the query returns a row or no row,
\* the model or the signer answers, or the call raises.
Backends == {"ok", "empty", "error"}

BACKEND_ERROR == "503 Service Unavailable"

\* A tool's return: the exception that left it ("" when none) and its value.
Returns(value) == [raised |-> "", value |-> value]

get_gcs_uri_for_user(backend) ==
    IF backend = "error"
    THEN Returns("An error occurred while querying for the GCS URI: " \o BACKEND_ERROR)
    ELSE IF backend = "empty" THEN Returns(NO_EVIDENCE)
    ELSE Returns(GCS_URI)

get_visual_analysis_for_user(gcs_uri, backend) ==
    IF InvalidUri(gcs_uri)
    THEN Returns("Cannot perform visual analysis. Invalid or missing GCS URI: " \o gcs_uri)
    ELSE IF backend = "error"
    THEN Returns("An error occurred during the visual analysis: " \o BACKEND_ERROR)
    ELSE Returns("The screenshot shows a terminal running a port scan.")

\* generate_signed_url without its try block (a faulty variant, used to test
\* C23).
generate_signed_url_uncaught(gcs_uri, backend) ==
    IF InvalidUri(gcs_uri) THEN Returns("Invalid GCS URI provided.")
    ELSE IF backend = "error" THEN [raised |-> "ServiceUnavailable", value |-> None]
    ELSE Returns("https://storage.googleapis.com/cymbal-evidence/u.lewis.png?X-Goog-Signature=ab12")

generate_signed_url(gcs_uri, backend) ==
    IF InvalidUri(gcs_uri) THEN Returns("Invalid GCS URI provided.")
    ELSE IF backend = "error"
    THEN Returns("Error generating signed URL: " \o BACKEND_ERROR)
    ELSE Returns("https://storage.googleapis.com/cymbal-evidence/u.lewis.png?X-Goog-Signature=ab12")

\* The tools with a backend call, and the agent that has each.
EvidenceTools == {"get_gcs_uri_for_user", "get_visual_analysis_for_user", "generate_signed_url"}

ToolReturn(tool, gcs_uri, backend) ==
    IF tool = "get_gcs_uri_for_user" THEN get_gcs_uri_for_user(backend)
    ELSE IF tool = "get_visual_analysis_for_user"
    THEN get_visual_analysis_for_user(gcs_uri, backend)
    ELSE generate_signed_url(gcs_uri, backend)

(* ------------------------ evidence references ------------------------ *)

GS_SCHEME == <<"g","s",":","/","/">>

\* str.replace(old, "") : every occurrence of old removed, left to right.
RECURSIVE replace(_, _)
replace(s, old) ==
    IF s = << >> THEN << >>
    ELSE IF StartsWith(s, old) THEN replace(SubSeq(s, Len(old) + 1, Len(s)), old)
    ELSE <<Head(s)>> \o replace(Tail(s), old)

\* The object generate_signed_url signs:
\* bucket_name, object_name = gcs_uri.replace("gs://", "").split("/", 1),
\* a ValueError (caught by the tool) when there is no "/" to split at.
signed_object(gcs_uri) ==
    LET path == replace(gcs_uri, GS_SCHEME)
    IN  IF find(path, "/") = -1
        THEN [ok |-> FALSE, bucket_name |-> << >>, object_name |-> << >>]
        ELSE [ok |-> TRUE,
              bucket_name |-> SubSeq(path, 1, find(path, "/")),
              object_name |-> SubSeq(path, find(path, "/") + 2, Len(path))]

\* The reference a tool hands to its backend: file_uri=gcs_uri for the model,
\* the blob of bucket_name and object_name for the signer.
backend_reference(tool, gcs_uri) ==
    IF tool = "get_visual_analysis_for_user" THEN gcs_uri
    ELSE GS_SCHEME \o signed_object(gcs_uri).bucket_name \o <<"/">>
         \o signed_object(gcs_uri).object_name

\* not gcs_uri or not gcs_uri.startswith("gs://")
rejected(gcs_uri) == gcs_uri = << >> \/ ~StartsWith(gcs_uri, GS_SCHEME)

\* Whether the tool reaches its backend call with this argument.
calls_backend(tool, gcs_uri) ==
    /\ ~rejected(gcs_uri)
    /\ tool = "generate_signed_url" => signed_object(gcs_uri).ok

REJECTED_VISUAL == "Cannot perform visual analysis. Invalid or missing GCS URI: "

REJECTED_SIGNING == "Invalid GCS URI provided."

\* gcs_uri arguments: object URIs, a bucket alone, other schemes, nothing, and
\* the two texts get_gcs_uri_for_user returns in place of a URI.
UriTexts ==
    { <<"g","s",":","/","/","b","/","x",".","p","n","g">>,
      <<"g","s",":","/","/","b","/","g","s",":","/","/","x">>,
      <<"g","s",":","/","/","b">>,
      <<"G","S",":","/","/","b","/","x">>,
      <<"h","t","t","p",":","/","/","b","/","x">>,
      << >>,
      <<"N","o"," ","r","e","c","e","n","t"," ","h","i","g","h","-","r","i",
        "s","k"," ","e","v","e","n","t","s"," ","w","i","t","h"," ","a","s",
        "s","o","c","i","a","t","e","d"," ","v","i","s","u","a","l"," ","e",
        "v","i","d","e","n","c","e"," ","f","o","u","n","d"," ","f","o","r",
        " ","t","h","i","s"," ","u","s","e","r",".">>,
      <<"A","n"," ","e","r","r","o","r"," ","o","c","c","u","r","r","e","d",
        " ","w","h","i","l","e"," ","q","u","e","r","y","i","n","g"," ","f",
        "o","r"," ","t","h","e"," ","G","C","S"," ","U","R","I",":"," ","5",
        "0","3"," ","S","e","r","v","i","c","e"," ","U","n","a","v","a","i",
        "l","a","b","l","e">> }

UriTools == {"get_visual_analysis_for_user", "generate_signed_url"}

(* -------------------------- the event generator ---------------------- *)

\* The users with a profile, and the pool of internal addresses as drawn at
\* import (a set: equal draws collapse), here smaller than the user list so
\* that the pool can run dry.
BENIGN_USERS == {"j.doe", "a.smith", "svc_backup", "admin"}

INTERNAL_IPS == {"10.1.0.2", "10.1.7.9", "10.1.255.254"}

ACTIVITY_EVENT_TYPES == {"connection", "dns_query"}

public_ip(user) ==
    CASE user = "j.doe" -> "74.125.0.1"
      [] user = "a.smith" -> "74.125.0.2"
      [] user = "svc_backup" -> "74.125.255.0"
      [] OTHER -> "74.125.0.3"

\* The None in a slot of the returned (access_event, network_event) pair.
NoEvent == [event_type |-> None]

\* The state after create_user_profiles(): every user logged out, the pool
\* full, nothing returned yet.
NoGenerator ==
    [ USER_PROFILES |-> [ user \in BENIGN_USERS |->
                            [ public_ip |-> public_ip(user), current_internal_ip |-> None ] ],
      AVAILABLE_INTERNAL_IPS |-> INTERNAL_IPS,
      branch |-> "created",
      access_event |-> NoEvent,
      network_event |-> NoEvent ]

\* A pop that hands out an address and leaves it in the pool (a faulty
\* variant, used to test C38).
pop_kept(pool, new_ip) == pool

\* AVAILABLE_INTERNAL_IPS.pop(): the pool after new_ip, any one of its
\* elements, was taken out.
pop(pool, new_ip) == pool \ {new_ip}

\* generate_and_route_events() with chosen_user drawn by random.choice, the two
\* random.random() draws falling below their thresholds or not, event_type
\* drawn by random.choices and new_ip the element pop() removes.
generate_and_route_events_state(g, chosen_user, logout, failure, event_type, new_ip) ==
    LET profile == g.USER_PROFILES[chosen_user]
    IN  IF profile.current_internal_ip # None
        THEN IF logout
             THEN [ g EXCEPT
                      !.AVAILABLE_INTERNAL_IPS = @ \cup {profile.current_internal_ip},
                      !.USER_PROFILES[chosen_user].current_internal_ip = None,
                      !.branch = "logout",
                      !.access_event = NoEvent,
                      !.network_event = NoEvent ]
             ELSE [ g EXCEPT
                      !.branch = "network",
                      !.access_event = NoEvent,
                      !.network_event = [ event_type |-> event_type,
                                          user_id |-> chosen_user,
                                          source_ip |-> profile.current_internal_ip ] ]
        ELSE IF g.AVAILABLE_INTERNAL_IPS = {}
             THEN [ g EXCEPT !.branch = "no_ip",
                             !.access_event = NoEvent,
                             !.network_event = NoEvent ]
             ELSE IF failure
                  THEN [ g EXCEPT
                           !.branch = "login_failure",
                           !.access_event = [ event_type |-> "login_failure",
                                              user_id |-> chosen_user,
                                              source_ip |-> profile.public_ip,
                                              assigned_internal_ip |-> None ],
                           !.network_event = NoEvent ]
                  ELSE [ g EXCEPT
                           !.AVAILABLE_INTERNAL_IPS = pop(@, new_ip),
                           !.USER_PROFILES[chosen_user].current_internal_ip = new_ip,
                           !.branch = "login_success",
                           !.access_event = [ event_type |-> "login_success",
                                              user_id |-> chosen_user,
                                              source_ip |-> profile.public_ip,
                                              assigned_internal_ip |-> new_ip ],
                           !.network_event = NoEvent ]

(* ------------------------------- inbound ------------------------------ *)

\* No message received yet.
NoMessage == [received |-> FALSE, raw_text |-> << >>, new_message |-> << >>]

(* ------------------------------- logging ------------------------------ *)

\* logging_utils as imported: the flag is False, the 'cymbal-cyber-agent'
\* logger and the root logger have no cloud handler, nothing has been emitted.
\* setups counts the calls of setup_logging, early those that returned at the
\* flag test; emitted holds, per log_agent_event call, the number of copies of
\* the record that went to Cloud Logging.
NoLogging ==
    [ _logging_setup_complete |-> FALSE, handlers |-> 0, root_handlers |-> 0,
      level |-> "NOTSET", setups |-> 0, early |-> 0, emitted |-> << >> ]

\* Messages passed to log_agent_event.
LogMessages == {"Agent starting", "Agent finished"}

(* ------------------------- concurrent escalations --------------------- *)

Runs == {"r1", "r2"}

\* ticket_id arguments of concurrent escalate_to_human runs.
RunTickets == {"ticket-u.l-0", "ticket-u.l-1", "ticket-unknown_user-0"}

\* alert_payload argument of those runs.
RUN_ALERT == JsonObject(("user_id" :> "u.lewis"))

\* A run of escalate_to_human that has not been called yet; touched is the
\* history of the object names the run wrote, checked, read or deleted.
NoRun ==
    [ pc |-> "idle", ticket_id |-> "", human_decision |-> None,
      human_comment |-> None, touched |-> {} ]

(* ---------------------------- decision gate --------------------------- *)

NoGate == [findings |-> "none", investigation |-> "none", selected |-> << >>]

(* ------------------------------- state -------------------------------- *)

VARIABLES
    now,            \* time.time(), in whole seconds
    lag,            \* seconds spent so far outside time.sleep
    store,          \* the escalation bucket: object name -> content
    audit,          \* the adk_threat_assessment table: the rows inserted, in order
    pc,             \* position of the workflow run
    alert_payload,  \* the payload the adapter handed to the agents
    ticket_id,      \* ticket_id argument of escalate_to_human
    start_time,     \* escalate_to_human: start_time
    wake,           \* escalate_to_human: when the current time.sleep(2) ends
    downloaded,     \* escalate_to_human: what blob_response.download_as_string() returned
    human_decision, \* escalate_to_human: human_decision read from the response
    human_comment,  \* escalate_to_human: human_comment read from the response
    result,         \* what the run ended with: a tool's return value or the adapter's error text
    raised,         \* the exception that reached stream_query's except clause ("" when none)
    faults,         \* history: number of backend calls of the run that failed
    answers,        \* history of the approver's writes: [writes, good_in_budget, bad, late]
    logCalls,       \* history: log_human_decision invocations of the run, [human_decision, inserted]
    respDeletes,    \* history: number of blob_response.delete() calls of the run
    issued,         \* history: ticket ids returned by create_rich_ticket_id, in order
    calls,          \* history: arguments of the direct audit-tool invocations, in order
    agents,         \* status of the three LLM agents of the run: agent name -> status
    initial_state,  \* stream_query: the initial state of the session it created
    guarded,        \* history: the tool calls forbidden_dml_check has seen, [tool, args, result]
    sessions,       \* the proxied session service: ids of the user's sessions, by creation
    callers,        \* the get_session calls in progress: caller -> [pc, sessions_list, session]
    polls,          \* history: number of blob_response.exists() checks of the run
    message,        \* stream_query: the inbound text and the text handed to the runner
    logging,        \* logging_utils: the flag, the handlers and what reached Cloud Logging
    runs,           \* concurrent escalate_to_human runs: run -> [pc, ticket_id, touched]
    tool_results,   \* history: the returns of the evidence and report tools, in order
    gate,           \* the decision agent's findings and the terminal tools it called
    invocations,    \* history: the stream_query invocations, [message, session_id, ...]
    generator       \* the benign event generator: profiles, IP pool, last return value

vars == << now, lag, store, audit, pc, alert_payload, ticket_id, start_time, wake,
           downloaded, human_decision, human_comment, result, raised, faults, answers,
           logCalls, respDeletes, issued, calls, agents, initial_state, guarded,
           sessions, callers, polls, message, logging, runs, tool_results, gate,
           invocations, generator >>

\* The state of the workflow run.
runVars == << pc, alert_payload, ticket_id, start_time, wake, downloaded, human_decision,
              human_comment, result, raised, faults, logCalls, respDeletes, agents,
              polls >>

\* The state of the adapter's session, of the DML guard and of the session service.
sideVars == << initial_state, guarded, sessions, callers >>

\* The state of the inbound message, of logging_utils, of the concurrent
\* escalations, of the evidence tools and of the decision gate.
auxVars == << message, logging, runs, tool_results, gate, invocations, generator >>

Init ==
    /\ now = 0
    /\ lag = 0
    /\ store = << >>
    /\ audit = << >>
    /\ pc = "idle"
    /\ alert_payload = NoText
    /\ ticket_id = ""
    /\ start_time = 0
    /\ wake = 0
    /\ downloaded = NoText
    /\ human_decision = None
    /\ human_comment = None
    /\ result = None
    /\ raised = ""
    /\ faults = 0
    /\ answers = [writes |-> 0, good_in_budget |-> FALSE, bad |-> FALSE, late |-> FALSE]
    /\ logCalls = << >>
    /\ respDeletes = 0
    /\ issued = << >>
    /\ calls = << >>
    /\ agents = [a \in AgentNames |-> "idle"]
    /\ initial_state = [ticket_id |-> None]
    /\ guarded = << >>
    /\ sessions = << >>
    /\ callers = [p \in Callers |-> NoCall]
    /\ polls = 0
    /\ message = NoMessage
    /\ logging = NoLogging
    /\ runs = [r \in Runs |-> NoRun]
    /\ tool_results = << >>
    /\ gate = NoGate
    /\ invocations = << >>
    /\ generator = NoGenerator

(* ------------------------------ the store ----------------------------- *)

blob_exists(name) == name \in DOMAIN store

blob_put(name, content) == (name :> content) @@ store

blob_delete(name) == [n \in DOMAIN store \ {name} |-> store[n]]

(* ---------------------------- the audit table ------------------------- *)

\* bq_client.insert_rows_json(table, [row]) returning no errors: the row is appended.
insert_rows_json(table, row) == Append(table, row)

\* log_false_positive inserting its row twice (a faulty variant, used to test
\* C20).
log_false_positive_twice(table, alert, agent_comment) ==
    insert_rows_json(insert_rows_json(table, FalsePositiveRow(alert, agent_comment)),
                     FalsePositiveRow(alert, agent_comment))

\* The table after log_false_positive(alert_payload, agent_comment).
log_false_positive(table, alert, agent_comment) ==
    insert_rows_json(table, FalsePositiveRow(alert, agent_comment))

\* The table after log_human_decision(ticket_id, human_decision, human_comment,
\* alert_payload, agent_reason_for_escalation).
log_human_decision(table, ticket, decision, comment, alert, agent_reason) ==
    insert_rows_json(table, HumanDecisionRow(alert, decision, comment, agent_reason))

(* ------------------------------ the clock ----------------------------- *)

Sleeping == pc = "sleep" /\ now < wake

\* One second passes: inside time.sleep(2), or as latency of some other step.
Tick ==
    /\ IF Sleeping THEN lag' = lag ELSE lag < MaxLag /\ lag' = lag + 1
    /\ now' = now + 1
    /\ UNCHANGED << store, audit, runVars, answers, issued, calls, sideVars,
                    auxVars >>

(* ------------------------ adapter and decision ------------------------ *)

\* stream_query, steps 5 and 6: the clean payload is handed to root_agent,
\* whose first sub-agent is investigation_agent.
RunAgent(a) ==
    /\ pc = "idle"
    /\ pc' = "investigate"
    /\ alert_payload' = a
    /\ UNCHANGED << now, lag, store, audit, ticket_id, start_time, wake, downloaded,
                    human_decision, human_comment, result, raised, faults, answers,
                    logCalls, respDeletes, issued, calls, agents,
                    sideVars, polls,
                    auxVars >>

\* stream_query on a message whose text part is raw_text: the ticket reference
\* found in the text (or a random one) becomes the initial state of a new
\* session, and the clean payload is handed to root_agent.
stream_query(raw_text, uuid) ==
    /\ pc = "idle"
    /\ initial_state' =
          [ticket_id |-> IF ticket_match(raw_text) # << >>
                         THEN Join(ticket_match(raw_text))
                         ELSE "ticket-" \o uuid]
    /\ alert_payload' = AlertText(clean_payload(raw_text))
    /\ message' = [ received |-> TRUE, raw_text |-> raw_text,
                    new_message |-> clean_payload(raw_text) ]
    /\ pc' = "investigate"
    /\ UNCHANGED << now, lag, store, audit, ticket_id, start_time, wake, downloaded,
                    human_decision, human_comment, result, raised, faults, answers,
                    logCalls, respDeletes, issued, calls, agents, guarded, sessions,
                    callers, polls, logging, runs, tool_results, gate,
                    invocations, generator >>

\* investigation_agent (a ParallelAgent) starts one of its sub-agents; the
\* sub-agents are started independently of one another.
gatherer_start(g) ==
    /\ pc = "investigate"
    /\ agents[g] = "idle"
    /\ agents' = [agents EXCEPT ![g] = "running"]
    /\ UNCHANGED << now, lag, store, audit, pc, alert_payload, ticket_id, start_time,
                    wake, downloaded, human_decision, human_comment, result, raised,
                    faults, answers, logCalls, respDeletes, issued, calls, sideVars, polls,
                    auxVars >>

\* A gatherer returns its final output (stored under its output_key).
gatherer_finish(g) ==
    /\ pc = "investigate"
    /\ agents[g] = "running"
    /\ agents' = [agents EXCEPT ![g] = "done"]
    /\ UNCHANGED << now, lag, store, audit, pc, alert_payload, ticket_id, start_time,
                    wake, downloaded, human_decision, human_comment, result, raised,
                    faults, answers, logCalls, respDeletes, issued, calls, sideVars, polls,
                    auxVars >>

\* decision_start with the join replaced by a race: the second sub-agent of
\* root_agent starts as soon as one gatherer has finished (a faulty variant,
\* used to test C13).
decision_start_after_first_gatherer ==
    /\ pc = "investigate"
    /\ \E g \in Gatherers : agents[g] = "done"
    /\ agents' = [agents EXCEPT !["decision_agent"] = "running"]
    /\ pc' = "decide"
    /\ UNCHANGED << now, lag, store, audit, alert_payload, ticket_id, start_time,
                    wake, downloaded, human_decision, human_comment, result, raised,
                    faults, answers, logCalls, respDeletes, issued, calls, sideVars, polls,
                    auxVars >>

\* root_agent (a SequentialAgent) starts its second sub-agent, decision_agent,
\* when its first, investigation_agent, has finished, which is when every
\* sub-agent of investigation_agent has.
decision_start ==
    /\ pc = "investigate"
    /\ \A g \in Gatherers : agents[g] = "done"
    /\ agents' = [agents EXCEPT !["decision_agent"] = "running"]
    /\ pc' = "decide"
    /\ UNCHANGED << now, lag, store, audit, alert_payload, ticket_id, start_time,
                    wake, downloaded, human_decision, human_comment, result, raised,
                    faults, answers, logCalls, respDeletes, issued, calls, sideVars, polls,
                    auxVars >>

\* decision_agent, "IF FALSE POSITIVE": call log_false_positive.
DecideFalsePositive ==
    /\ pc = "decide"
    /\ pc' = "log_fp"
    /\ UNCHANGED << now, lag, store, audit, alert_payload, ticket_id, start_time, wake,
                    downloaded, human_decision, human_comment, result, raised, faults,
                    answers, logCalls, respDeletes, issued, calls, agents,
                    sideVars, polls,
                    auxVars >>

\* DecideEscalate with the ticket reference of the inbound text passed to
\* escalate_to_human (a faulty variant, used to test C12).
DecideEscalate_passes_reference(u) ==
    /\ pc = "decide"
    /\ pc' = "upload"
    /\ ticket_id' = initial_state.ticket_id
    /\ issued' = Append(issued, create_rich_ticket_id(u, now))
    /\ UNCHANGED << now, lag, store, audit, alert_payload, start_time, wake, downloaded,
                    human_decision, human_comment, result, raised, faults, answers,
                    logCalls, respDeletes, calls, agents, sideVars, polls,
                    auxVars >>

\* decision_agent, "IF THREAT DETECTED" / "IF UNCERTAIN": call create_rich_ticket_id
\* and pass its output to escalate_to_human.
DecideEscalate(u) ==
    /\ pc = "decide"
    /\ pc' = "upload"
    /\ ticket_id' = create_rich_ticket_id(u, now)
    /\ issued' = Append(issued, create_rich_ticket_id(u, now))
    /\ UNCHANGED << now, lag, store, audit, alert_payload, start_time, wake, downloaded,
                    human_decision, human_comment, result, raised, faults, answers,
                    logCalls, respDeletes, calls, agents,
                    sideVars, polls,
                    auxVars >>

\* The log_false_positive tool call of the run, the insert returning no errors.
run_log_false_positive ==
    /\ pc = "log_fp"
    /\ audit' = log_false_positive(audit, alert_payload, AGENT_COMMENT)
    /\ result' = FP_OK_RESULT
    /\ pc' = "done"
    /\ UNCHANGED << now, lag, store, alert_payload, ticket_id, start_time, wake,
                    downloaded, human_decision, human_comment, raised, faults, answers,
                    logCalls, respDeletes, issued, calls, agents,
                    sideVars, polls,
                    auxVars >>

\* The exception of a tool reaches stream_query's except clause, which yields
\* the error text and ends the stream.
Raise(exception) ==
    /\ pc' = "done"
    /\ raised' = exception
    /\ result' = ERROR_PREFIX \o exception

(* -------------------------- escalate_to_human ------------------------- *)

\* request_payload without its timestamp (a faulty variant, used to test C27).
request_payload_without_timestamp ==
    ("ticket_id" :> ticket_id) @@ ("context_for_human" :> CONTEXT_DATA)
    @@ ("agent_reason_for_escalation" :> AGENT_REASON)

request_payload ==
    ("timestamp" :> ToString(now)) @@ ("ticket_id" :> ticket_id)
    @@ ("context_for_human" :> CONTEXT_DATA)
    @@ ("agent_reason_for_escalation" :> AGENT_REASON)

\* 1. upload the request; set up the polling loop.
escalate_upload ==
    /\ pc = "upload"
    /\ store' = blob_put(request_filename(ticket_id), json_dumps(request_payload))
    /\ start_time' = now
    /\ pc' = "loop_test"
    /\ UNCHANGED << now, lag, audit, alert_payload, ticket_id, wake, downloaded,
                    human_decision, human_comment, result, raised, faults, answers,
                    logCalls, respDeletes, issued, calls, agents,
                    sideVars, polls,
                    auxVars >>

\* The loop condition with <= for < (a faulty variant, used to test C30).
InBudget_inclusive == now - start_time <= timeout_seconds

InBudget == now - start_time < timeout_seconds

\* while time.time() - start_time < timeout_seconds
escalate_loop_test ==
    /\ pc = "loop_test"
    /\ pc' = IF InBudget THEN "exists" ELSE "timeout_log"
    /\ UNCHANGED << now, lag, store, audit, alert_payload, ticket_id, start_time, wake,
                    downloaded, human_decision, human_comment, result, raised, faults,
                    answers, logCalls, respDeletes, issued, calls, agents,
                    sideVars, polls,
                    auxVars >>

\* if blob_response.exists(): ... else time.sleep(2)
escalate_exists ==
    /\ pc = "exists"
    /\ polls' = polls + 1
    /\ IF blob_exists(response_filename(ticket_id))
       THEN pc' = "download" /\ wake' = wake
       ELSE pc' = "sleep" /\ wake' = now + poll_interval
    /\ UNCHANGED << now, lag, store, audit, alert_payload, ticket_id, start_time,
                    downloaded, human_decision, human_comment, result, raised, faults,
                    answers, logCalls, respDeletes, issued, calls, agents,
                    sideVars, auxVars >>

\* time.sleep(2) returns.
escalate_wake ==
    /\ pc = "sleep"
    /\ now >= wake
    /\ pc' = "loop_test"
    /\ UNCHANGED << now, lag, store, audit, alert_payload, ticket_id, start_time, wake,
                    downloaded, human_decision, human_comment, result, raised, faults,
                    answers, logCalls, respDeletes, issued, calls, agents,
                    sideVars, polls,
                    auxVars >>

\* response_data = json.loads(blob_response.download_as_string()); the two .get calls.
escalate_download ==
    /\ pc = "download"
    /\ blob_exists(response_filename(ticket_id))
    /\ LET text == store[response_filename(ticket_id)]
       IN  /\ downloaded' = text
           /\ IF JsonDecodes(text) /\ HasGet(text)
              THEN /\ human_decision' = DictGet(text, "human_decision", "No decision found.")
                   /\ human_comment' = DictGet(text, "human_comment", "")
                   /\ pc' = "log_human"
                   /\ UNCHANGED << raised, result >>
              ELSE /\ Raise(IF JsonDecodes(text) THEN "AttributeError" ELSE "JSONDecodeError")
                   /\ UNCHANGED << human_decision, human_comment >>
    /\ UNCHANGED << now, lag, store, audit, alert_payload, ticket_id, start_time, wake,
                    faults, answers, logCalls, respDeletes, issued, calls, agents,
                    sideVars, polls,
                    auxVars >>

\* escalate_log_human deleting the request object where the audit row is
\* to be written (a faulty variant, used to test C29).
escalate_log_human_deletes_first ==
    /\ pc = "log_human"
    /\ store' = blob_delete(request_filename(ticket_id))
    /\ pc' = "delete_request"
    /\ UNCHANGED << now, lag, audit, alert_payload, ticket_id, start_time, wake,
                    downloaded, human_decision, human_comment, result, raised, faults,
                    answers, logCalls, respDeletes, issued, calls, agents, sideVars,
                    polls, auxVars >>

\* log_status = log_human_decision(...) with the approver's answer.
escalate_log_human ==
    /\ pc = "log_human"
    /\ audit' = log_human_decision(audit, ticket_id, human_decision, human_comment,
                                   alert_payload, AGENT_REASON)
    /\ logCalls' = Append(logCalls, [human_decision |-> human_decision, inserted |-> TRUE])
    /\ pc' = "delete_request"
    /\ UNCHANGED << now, lag, store, alert_payload, ticket_id, start_time, wake,
                    downloaded, human_decision, human_comment, result, raised, faults,
                    answers, respDeletes, issued, calls, agents,
                    sideVars, polls,
                    auxVars >>

\* blob_request.delete(): NotFound when the object is gone.
escalate_delete_request ==
    /\ pc = "delete_request"
    /\ IF blob_exists(request_filename(ticket_id))
       THEN /\ store' = blob_delete(request_filename(ticket_id))
            /\ pc' = "delete_response"
            /\ UNCHANGED << raised, result >>
       ELSE /\ Raise("NotFound")
            /\ store' = store
    /\ UNCHANGED << now, lag, audit, alert_payload, ticket_id, start_time, wake,
                    downloaded, human_decision, human_comment, faults, answers, logCalls,
                    respDeletes, issued, calls, agents,
                    sideVars, polls,
                    auxVars >>

\* blob_response.delete(), then return the human result.
escalate_delete_response ==
    /\ pc = "delete_response"
    /\ respDeletes' = respDeletes + 1
    /\ IF blob_exists(response_filename(ticket_id))
       THEN /\ store' = blob_delete(response_filename(ticket_id))
            /\ pc' = "done"
            /\ result' = HumanResult(human_decision)
            /\ raised' = raised
       ELSE /\ Raise("NotFound")
            /\ store' = store
    /\ UNCHANGED << now, lag, audit, alert_payload, ticket_id, start_time, wake,
                    downloaded, human_decision, human_comment, faults, answers, logCalls,
                    issued, calls, agents,
                    sideVars, polls,
                    auxVars >>

\* After the loop: log the unacknowledged event.
escalate_timeout_log ==
    /\ pc = "timeout_log"
    /\ audit' = log_human_decision(audit, ticket_id, TIMEOUT_DECISION, "N/A",
                                   alert_payload, AGENT_REASON)
    /\ logCalls' = Append(logCalls, [human_decision |-> TIMEOUT_DECISION, inserted |-> TRUE])
    /\ pc' = "timeout_cleanup"
    /\ UNCHANGED << now, lag, store, alert_payload, ticket_id, start_time, wake,
                    downloaded, human_decision, human_comment, result, raised, faults,
                    answers, respDeletes, issued, calls, agents,
                    sideVars, polls,
                    auxVars >>

\* escalate_timeout_cleanup with the delete of the request object left out
\* (a faulty variant, used to test C2).
escalate_timeout_cleanup_keeps_request ==
    /\ pc = "timeout_cleanup"
    /\ store' = store
    /\ result' = TIMEOUT_RESULT
    /\ pc' = "done"
    /\ UNCHANGED << now, lag, audit, alert_payload, ticket_id, start_time, wake,
                    downloaded, human_decision, human_comment, raised, faults, answers,
                    logCalls, respDeletes, issued, calls, agents,
                    sideVars, polls,
                    auxVars >>

\* if blob_request.exists(): blob_request.delete(); return the timeout result.
escalate_timeout_cleanup ==
    /\ pc = "timeout_cleanup"
    /\ store' = IF blob_exists(request_filename(ticket_id))
                THEN blob_delete(request_filename(ticket_id)) ELSE store
    /\ result' = TIMEOUT_RESULT
    /\ pc' = "done"
    /\ UNCHANGED << now, lag, audit, alert_payload, ticket_id, start_time, wake,
                    downloaded, human_decision, human_comment, raised, faults, answers,
                    logCalls, respDeletes, issued, calls, agents,
                    sideVars, polls,
                    auxVars >>

(* ---------------------------- the approver ---------------------------- *)

\* escalate_to_human has been entered and has uploaded its request.
Escalated ==
    ticket_id # "" /\ pc \notin {"idle", "investigate", "decide", "log_fp", "upload"}

\* The polling loop has been left through its condition.
LoopLeft == pc \in {"timeout_log", "timeout_cleanup", "done"}

\* The approver writes (or overwrites) the response object of the ticket whose
\* request was uploaded.
ApproverWrite(body) ==
    /\ Escalated
    /\ answers.writes < MaxWrites
    /\ store' = blob_put(response_filename(ticket_id), body)
    /\ answers' =
          [ writes |-> answers.writes + 1,
            good_in_budget |-> answers.good_in_budget
                               \/ (WellFormed(body) /\ ~LoopLeft /\ InBudget),
            bad |-> answers.bad \/ ~WellFormed(body),
            late |-> answers.late \/ pc = "done" ]
    /\ UNCHANGED << now, lag, audit, runVars, issued, calls, sideVars,
                    auxVars >>

(* ------------------------------- faults ------------------------------- *)

StoreSteps == {"upload", "exists", "download", "delete_request", "delete_response",
               "timeout_cleanup"}

\* A blob-store call of escalate_to_human raises (the store is unavailable).
\* Nothing in escalate_to_human catches it.
blob_operation_fails ==
    /\ pc \in StoreSteps
    /\ faults' = faults + 1
    /\ respDeletes' = IF pc = "delete_response" THEN respDeletes + 1 ELSE respDeletes
    /\ Raise("ServiceUnavailable")
    /\ UNCHANGED << now, lag, store, audit, alert_payload, ticket_id, start_time, wake,
                    downloaded, human_decision, human_comment, answers, logCalls,
                    issued, calls, agents,
                    sideVars, polls,
                    auxVars >>

\* A gatherer ends with an exception (the model call or a tool of it fails):
\* the exception leaves investigation_agent and root_agent and reaches
\* stream_query's except clause; no further sub-agent is started.
gatherer_fails(g) ==
    /\ pc = "investigate"
    /\ agents[g] = "running"
    /\ agents' = [agents EXCEPT ![g] = "failed"]
    /\ faults' = faults + 1
    /\ Raise("AgentError")
    /\ UNCHANGED << now, lag, store, audit, alert_payload, ticket_id, start_time, wake,
                    downloaded, human_decision, human_comment, answers, logCalls,
                    respDeletes, issued, calls, sideVars, polls,
                    auxVars >>

\* The insert of log_human_decision returns errors or raises: the function
\* returns its failure text, which escalate_to_human prints and ignores.
log_human_decision_fails ==
    /\ pc \in {"log_human", "timeout_log"}
    /\ faults' = faults + 1
    /\ logCalls' = Append(logCalls,
           [human_decision |-> IF pc = "log_human" THEN human_decision ELSE TIMEOUT_DECISION,
            inserted |-> FALSE])
    /\ pc' = IF pc = "log_human" THEN "delete_request" ELSE "timeout_cleanup"
    /\ UNCHANGED << now, lag, store, audit, alert_payload, ticket_id, start_time, wake,
                    downloaded, human_decision, human_comment, result, raised, answers,
                    respDeletes, issued, calls, agents,
                    sideVars, polls,
                    auxVars >>

\* The insert of log_false_positive returns errors or raises: the tool returns
\* its failure text.
log_false_positive_fails ==
    /\ pc = "log_fp"
    /\ faults' = faults + 1
    /\ result' = "Failed to log false positive."
    /\ pc' = "done"
    /\ UNCHANGED << now, lag, store, audit, alert_payload, ticket_id, start_time, wake,
                    downloaded, human_decision, human_comment, raised, answers, logCalls,
                    respDeletes, issued, calls, agents,
                    sideVars, polls,
                    auxVars >>

(* ------------------------ tools invoked directly ---------------------- *)

\* create_rich_ticket_id invoked as a tool, by any run of the decision agent.
create_rich_ticket_id_tool(u) ==
    /\ Len(issued) < MaxCalls
    /\ issued' = Append(issued, create_rich_ticket_id(u, now))
    /\ UNCHANGED << now, lag, store, audit, runVars, answers, calls, sideVars,
                    auxVars >>

HumanCalls ==
    [ tool : {"log_human_decision"},
      ticket_id : {"ticket-u.l-0", "ticket-unknown_user-0"},
      human_decision : {"Confirmed Threat", TIMEOUT_DECISION},
      human_comment : {"N/A"},
      alert_payload : ToolAlerts ]

FalsePositiveCalls ==
    [ tool : {"log_false_positive"},
      ticket_id : {""},
      human_decision : {None},
      human_comment : {None},
      alert_payload : ToolAlerts ]

\* log_human_decision invoked as a tool (it is in decision_agent's tools), or
\* by a run of escalate_to_human.
log_human_decision_tool(c) ==
    /\ Len(calls) < MaxCalls
    /\ audit' = log_human_decision(audit, c.ticket_id, c.human_decision, c.human_comment,
                                   c.alert_payload, AGENT_REASON)
    /\ calls' = Append(calls, c)
    /\ UNCHANGED << now, lag, store, runVars, answers, issued, sideVars,
                    auxVars >>

log_false_positive_tool(c) ==
    /\ Len(calls) < MaxCalls
    /\ audit' = log_false_positive(audit, c.alert_payload, AGENT_COMMENT)
    /\ calls' = Append(calls, c)
    /\ UNCHANGED << now, lag, store, runVars, answers, issued, sideVars,
                    auxVars >>

(* ---------------------------- the DML guard --------------------------- *)

\* An agent calls a tool: before_tool_callback runs first, and the tool is
\* executed exactly when the callback returns None.
before_tool_callback(tool, args) ==
    /\ Len(guarded) < MaxCalls
    /\ guarded' = Append(guarded,
          [ tool |-> tool, args |-> args,
            result |-> forbidden_dml_check(tool, args),
            executed |-> forbidden_dml_check(tool, args) = None ])
    /\ UNCHANGED << now, lag, store, audit, runVars, answers, issued, calls,
                    initial_state, sessions, callers,
                    auxVars >>

(* -------------------------- the session service ---------------------- *)

\* Caller p enters ImplicitSessionService.get_session with a session_id.
get_session(p, session_id) ==
    /\ callers[p].pc = "idle"
    /\ callers[p].n < MaxGets
    /\ callers' =
          [ q \in Callers |->
              IF q = p
              THEN [ callers[p] EXCEPT
                       !.pc = "list",
                       !.session_id = session_id,
                       !.n = @ + 1,
                       !.overlapped = @ \/ \E r \in Callers \ {p} : callers[r].pc # "idle" ]
              ELSE [ callers[q] EXCEPT !.overlapped = @ \/ callers[q].pc # "idle" ] ]
    /\ UNCHANGED << now, lag, store, audit, runVars, answers, issued, calls,
                    initial_state, guarded, sessions,
                    auxVars >>

\* list_sessions with the branch on its result replaced by an unconditional
\* create (a faulty variant, used to test C16).
list_sessions_then_create(p) ==
    /\ callers[p].pc = "list"
    /\ \E l \in Listings(sessions) :
          callers' = [ callers EXCEPT
                         ![p].sessions_list = l,
                         ![p].empty_seen = @ \/ l = << >>,
                         ![p].pc = "create" ]
    /\ UNCHANGED << now, lag, store, audit, runVars, answers, issued, calls,
                    initial_state, guarded, sessions,
                    auxVars >>

\* sessions_list = await self._proxied_service.list_sessions(...), and the
\* branch on sessions_list.sessions.
list_sessions(p) ==
    /\ callers[p].pc = "list"
    /\ \E l \in Listings(sessions) :
          callers' = [ callers EXCEPT
                         ![p].sessions_list = l,
                         ![p].empty_seen = @ \/ l = << >>,
                         ![p].pc = IF l # << >> THEN "get" ELSE "create" ]
    /\ UNCHANGED << now, lag, store, audit, runVars, answers, issued, calls,
                    initial_state, guarded, sessions,
                    auxVars >>

\* proxied_get_session asking for the caller's session_id (a faulty variant,
\* used to test C36).
proxied_get_session_requested(p) ==
    /\ callers[p].pc = "get"
    /\ callers' = [ callers EXCEPT
                      ![p].session = callers[p].session_id,
                      ![p].pc = "idle" ]
    /\ UNCHANGED << now, lag, store, audit, runVars, answers, issued, calls,
                    initial_state, guarded, sessions,
                    auxVars >>

\* session = await self._proxied_service.get_session(session_id =
\* sessions_list.sessions[0].id); return session.
proxied_get_session(p) ==
    /\ callers[p].pc = "get"
    /\ callers' = [ callers EXCEPT
                      ![p].session = callers[p].sessions_list[1],
                      ![p].pc = "idle" ]
    /\ UNCHANGED << now, lag, store, audit, runVars, answers, issued, calls,
                    initial_state, guarded, sessions,
                    auxVars >>

\* create_session made atomic with the listing: it creates only when the
\* user still has no session (a faulty variant, used to test C17).
create_session_if_absent(p) ==
    /\ callers[p].pc = "create"
    /\ sessions' = IF sessions = << >> THEN <<1>> ELSE sessions
    /\ callers' = [ callers EXCEPT
                      ![p].session = IF sessions = << >> THEN 1 ELSE sessions[1],
                      ![p].pc = "idle" ]
    /\ UNCHANGED << now, lag, store, audit, runVars, answers, issued, calls,
                    initial_state, guarded,
                    auxVars >>

\* session = await self._proxied_service.create_session(state=None); return
\* session.  The new session gets the next id.
create_session(p) ==
    /\ callers[p].pc = "create"
    /\ sessions' = Append(sessions, Len(sessions) + 1)
    /\ callers' = [ callers EXCEPT
                      ![p].session = Len(sessions) + 1,
                      ![p].pc = "idle" ]
    /\ UNCHANGED << now, lag, store, audit, runVars, answers, issued, calls,
                    initial_state, guarded,
                    auxVars >>

(* ------------------------- concurrent escalations --------------------- *)

\* escalate_to_human(ticket, ...) is called in run r.
run_call(r, ticket) ==
    /\ runs[r].pc = "idle"
    /\ runs' = [runs EXCEPT ![r].pc = "upload", ![r].ticket_id = ticket]
    /\ UNCHANGED << now, lag, store, audit, runVars, answers, issued, calls, sideVars,
                    message, logging, tool_results, gate,
                    invocations, generator >>

\* Run r uploads its request object.
run_upload(r) ==
    /\ runs[r].pc = "upload"
    /\ store' = blob_put(request_filename(runs[r].ticket_id),
                         json_dumps(("timestamp" :> ToString(now))
                                    @@ ("ticket_id" :> runs[r].ticket_id)
                                    @@ ("context_for_human" :> CONTEXT_DATA)
                                    @@ ("agent_reason_for_escalation" :> AGENT_REASON)))
    /\ runs' = [runs EXCEPT
                  ![r].pc = "poll",
                  ![r].touched = @ \cup {request_filename(runs[r].ticket_id)}]
    /\ UNCHANGED << now, lag, audit, runVars, answers, issued, calls, sideVars,
                    message, logging, tool_results, gate,
                    invocations, generator >>

\* One turn of run r's polling loop.  The loop condition depends on the clock,
\* which is left open here: the loop may be left at any turn.  Inside the loop
\* blob_response.exists() is checked.
run_poll(r, in_budget) ==
    /\ runs[r].pc = "poll"
    /\ runs' = [runs EXCEPT
                  ![r].pc = IF ~in_budget THEN "timeout_log"
                            ELSE IF blob_exists(response_filename(runs[r].ticket_id))
                                 THEN "download" ELSE "poll",
                  ![r].touched = IF in_budget
                                 THEN @ \cup {response_filename(runs[r].ticket_id)}
                                 ELSE @]
    /\ UNCHANGED << now, lag, store, audit, runVars, answers, issued, calls, sideVars,
                    message, logging, tool_results, gate,
                    invocations, generator >>

\* Run r downloads and parses its response object; an exception ends the run.
run_download(r) ==
    /\ runs[r].pc = "download"
    /\ LET name == response_filename(runs[r].ticket_id)
       IN  runs' = [runs EXCEPT
                      ![r].touched = @ \cup {name},
                      ![r].pc = IF blob_exists(name) /\ WellFormed(store[name])
                                THEN "log_human" ELSE "raised",
                      ![r].human_decision =
                          IF blob_exists(name) /\ WellFormed(store[name])
                          THEN DictGet(store[name], "human_decision", "No decision found.")
                          ELSE @,
                      ![r].human_comment =
                          IF blob_exists(name) /\ WellFormed(store[name])
                          THEN DictGet(store[name], "human_comment", "")
                          ELSE @]
    /\ UNCHANGED << now, lag, store, audit, runVars, answers, issued, calls, sideVars,
                    message, logging, tool_results, gate,
                    invocations, generator >>

\* Run r logs the approver's answer, or the timeout marker after the loop.
run_log(r) ==
    /\ runs[r].pc \in {"log_human", "timeout_log"}
    /\ audit' = IF runs[r].pc = "log_human"
                THEN log_human_decision(audit, runs[r].ticket_id, runs[r].human_decision,
                                        runs[r].human_comment, RUN_ALERT, AGENT_REASON)
                ELSE log_human_decision(audit, runs[r].ticket_id, TIMEOUT_DECISION, "N/A",
                                        RUN_ALERT, AGENT_REASON)
    /\ runs' = [runs EXCEPT
                  ![r].pc = IF runs[r].pc = "log_human" THEN "delete_request"
                            ELSE "timeout_cleanup"]
    /\ UNCHANGED << now, lag, store, runVars, answers, issued, calls, sideVars,
                    message, logging, tool_results, gate,
                    invocations, generator >>

\* Run r deletes an object: blob_request.delete() and blob_response.delete()
\* on the human path (NotFound when the object is gone), and the guarded
\* delete of the request on the timeout path.
run_delete(r) ==
    /\ runs[r].pc \in {"delete_request", "delete_response", "timeout_cleanup"}
    /\ LET name == IF runs[r].pc = "delete_response"
                   THEN response_filename(runs[r].ticket_id)
                   ELSE request_filename(runs[r].ticket_id)
       IN  /\ store' = IF blob_exists(name) THEN blob_delete(name) ELSE store
           /\ runs' = [runs EXCEPT
                         ![r].touched = @ \cup {name},
                         ![r].pc = IF runs[r].pc = "timeout_cleanup" THEN "returned"
                                   ELSE IF ~blob_exists(name) THEN "raised"
                                   ELSE IF runs[r].pc = "delete_request"
                                        THEN "delete_response" ELSE "returned"]
    /\ UNCHANGED << now, lag, audit, runVars, answers, issued, calls, sideVars,
                    message, logging, tool_results, gate,
                    invocations, generator >>

\* The approver answers the request of run r.
run_answer(r, body) ==
    /\ runs[r].pc \notin {"idle", "upload"}
    /\ answers.writes < MaxWrites
    /\ store' = blob_put(response_filename(runs[r].ticket_id), body)
    /\ answers' = [answers EXCEPT !.writes = @ + 1]
    /\ UNCHANGED << now, lag, audit, runVars, issued, calls, sideVars, auxVars >>

(* ------------------------ cancellation, evidence ---------------------- *)

\* The process is told to stop (SIGINT, or the caller's deadline enforced by
\* killing the worker) while escalate_to_human polls: the interrupt is raised
\* inside time.sleep or the store call, no handler or finally clause of
\* escalate_to_human sees it, and it is not an Exception, so stream_query's
\* except clause yields nothing.
external_cancel ==
    /\ pc \in {"loop_test", "exists", "sleep"}
    /\ pc' = "done"
    /\ raised' = "KeyboardInterrupt"
    /\ UNCHANGED << now, lag, store, audit, alert_payload, ticket_id, start_time, wake,
                    downloaded, human_decision, human_comment, result, faults, answers,
                    logCalls, respDeletes, issued, calls, agents, polls, sideVars,
                    auxVars >>

\* An agent calls one of its evidence or report tools: the investigator while
\* it runs, the decision agent (generate_signed_url) before it escalates.  An
\* exception leaving the tool would end the run.
evidence_tool_call(tool, gcs_uri, backend) ==
    /\ Len(tool_results) < MaxCalls
    /\ IF tool = "generate_signed_url"
       THEN pc = "decide"
       ELSE pc = "investigate" /\ agents["bq_investigation_agent"] = "running"
    /\ IF ToolReturn(tool, gcs_uri, backend).raised # ""
       THEN /\ Raise(ToolReturn(tool, gcs_uri, backend).raised)
            /\ tool_results' = tool_results
       ELSE /\ tool_results' = Append(tool_results,
                   [ tool |-> tool, backend |-> backend,
                     value |-> ToolReturn(tool, gcs_uri, backend).value ])
            /\ UNCHANGED << pc, raised, result >>
    /\ UNCHANGED << now, lag, store, audit, alert_payload, ticket_id, start_time, wake,
                    downloaded, human_decision, human_comment, faults, answers,
                    logCalls, respDeletes, issued, calls, agents, polls, sideVars,
                    message, logging, runs, gate,
                    invocations, generator >>

(* ----------------------------- decision gate -------------------------- *)

\* What decision_agent finds under {bigquery_investigation_results}, and the
\* case of its DECISION LOGIC it places the evidence in.
Investigations == {"present", "empty", "missing"}

Findings == {"threat", "false_positive", "uncertain"}

\* decision_agent reads its inputs and places them in one case of its
\* instruction.  For missing or empty investigation results the instruction
\* names no case ("this likely indicates a low-priority event or a system
\* error"), so any of the three may be chosen.
decision_assess(investigation, findings) ==
    /\ pc = "decide"
    /\ gate.findings = "none"
    /\ gate' = [gate EXCEPT !.investigation = investigation, !.findings = findings]
    /\ UNCHANGED << now, lag, store, audit, pc, alert_payload, ticket_id, start_time,
                    wake, downloaded, human_decision, human_comment, result, raised,
                    faults, answers, logCalls, respDeletes, issued, calls, agents,
                    polls, sideVars, message, logging, runs, tool_results,
                    invocations, generator >>

\* "IF FALSE POSITIVE: Call log_false_positive".
decision_false_positive ==
    /\ pc = "decide"
    /\ gate.findings = "false_positive"
    /\ gate' = [gate EXCEPT !.selected = Append(@, "log_false_positive")]
    /\ pc' = "log_fp"
    /\ UNCHANGED << now, lag, store, audit, alert_payload, ticket_id, start_time, wake,
                    downloaded, human_decision, human_comment, result, raised, faults,
                    answers, logCalls, respDeletes, issued, calls, agents, polls,
                    sideVars, message, logging, runs, tool_results,
                    invocations, generator >>

\* "IF THREAT DETECTED" and "IF UNCERTAIN": create_rich_ticket_id, then
\* escalate_to_human.
decision_escalate(u) ==
    /\ pc = "decide"
    /\ gate.findings \in {"threat", "uncertain"}
    /\ gate' = [gate EXCEPT !.selected = Append(@, "escalate_to_human")]
    /\ pc' = "upload"
    /\ ticket_id' = create_rich_ticket_id(u, now)
    /\ issued' = Append(issued, create_rich_ticket_id(u, now))
    /\ UNCHANGED << now, lag, store, audit, alert_payload, start_time, wake, downloaded,
                    human_decision, human_comment, result, raised, faults, answers,
                    logCalls, respDeletes, calls, agents, polls, sideVars, message,
                    logging, runs, tool_results,
                    invocations, generator >>

(* ------------------------------- logging ------------------------------ *)

\* setup_logging without the test of _logging_setup_complete (a faulty
\* variant, used to test C28).
setup_logging_unguarded(client_ok) ==
    /\ logging.setups < MaxCalls
    /\ logging' =
          IF client_ok
          THEN [ logging EXCEPT !.setups = @ + 1, !.level = "INFO",
                                !.handlers = @ + 1, !.root_handlers = @ + 1,
                                !._logging_setup_complete = TRUE ]
          ELSE [ logging EXCEPT !.setups = @ + 1, !.level = "INFO" ]
    /\ UNCHANGED << now, lag, store, audit, runVars, answers, issued, calls, sideVars,
                    message, runs, tool_results, gate,
                    invocations, generator >>

\* setup_logging(): return at once when the flag is set; otherwise set the
\* level, build the client (which raises without credentials, leaving the
\* flag unset), attach the handler to the root logger (setup_gcp_logging) and
\* to the 'cymbal-cyber-agent' logger, and set the flag.
setup_logging(client_ok) ==
    /\ logging.setups < MaxCalls
    /\ logging' =
          IF logging._logging_setup_complete
          THEN [ logging EXCEPT !.setups = @ + 1, !.early = @ + 1 ]
          ELSE IF client_ok
          THEN [ logging EXCEPT !.setups = @ + 1, !.level = "INFO",
                                !.handlers = @ + 1, !.root_handlers = @ + 1,
                                !._logging_setup_complete = TRUE ]
          ELSE [ logging EXCEPT !.setups = @ + 1, !.level = "INFO" ]
    /\ UNCHANGED << now, lag, store, audit, runVars, answers, issued, calls, sideVars,
                    message, runs, tool_results, gate,
                    invocations, generator >>

\* log_agent_event(message): log.info on the 'cymbal-cyber-agent' logger.  The
\* record is dropped while the logger's level is unset (the root's WARNING
\* applies); otherwise it goes to the logger's handlers and, propagating, to
\* the root's.
log_agent_event(msg) ==
    /\ Len(logging.emitted) < MaxCalls
    /\ logging' = [ logging EXCEPT !.emitted =
                       Append(@, [ message |-> msg,
                                   copies |-> IF logging.level = "INFO"
                                              THEN logging.handlers + logging.root_handlers
                                              ELSE 0 ]) ]
    /\ UNCHANGED << now, lag, store, audit, runVars, answers, issued, calls, sideVars,
                    message, runs, tool_results, gate,
                    invocations, generator >>

(* ------------------------- evidence references ------------------------ *)

\* get_visual_analysis_for_user or generate_signed_url called with a gcs_uri,
\* the backend answering: what the tool did with the argument.
uri_tool_call(tool, gcs_uri) ==
    /\ Len(tool_results) < MaxCalls
    /\ tool_results' = Append(tool_results,
          [ tool |-> tool, gcs_uri |-> gcs_uri,
            called |-> calls_backend(tool, gcs_uri),
            reference |-> IF calls_backend(tool, gcs_uri)
                          THEN backend_reference(tool, gcs_uri) ELSE << >>,
            value |-> IF rejected(gcs_uri)
                      THEN (IF tool = "generate_signed_url"
                            THEN REJECTED_SIGNING
                            ELSE REJECTED_VISUAL \o Join(gcs_uri))
                      ELSE IF calls_backend(tool, gcs_uri) THEN "backend answer"
                      ELSE "Error generating signed URL: not enough values to unpack" ])
    /\ UNCHANGED << now, lag, store, audit, runVars, answers, issued, calls, sideVars,
                    message, logging, runs, gate,
                    invocations, generator >>

(* ------------------------------ ticket ids ---------------------------- *)

\* create_rich_ticket_id called as a tool with any user_id text, the call and
\* its return value kept.
create_rich_ticket_id_call(u) ==
    /\ Len(tool_results) < MaxCalls
    /\ tool_results' = Append(tool_results,
          [ tool |-> "create_rich_ticket_id", user_id |-> u, timestamp |-> now,
            value |-> create_rich_ticket_id(u, now) ])
    /\ UNCHANGED << now, lag, store, audit, runVars, answers, issued, calls, sideVars,
                    message, logging, runs, gate,
                    invocations, generator >>

(* ----------------------- stream_query invocations --------------------- *)

\* One invocation of CymbalCyberAdapter.stream_query, from the call to the end
\* of the stream.
stream_query_call(m, uuid12, uuid8, failure) ==
    /\ Len(invocations) < MaxInvocations
    /\ invocations' = Append(invocations,
                             stream_query_outcome(m, uuid12, uuid8, failure, invocations))
    /\ UNCHANGED << now, lag, store, audit, runVars, answers, issued, calls, sideVars,
                    message, logging, runs, tool_results, gate, generator >>

(* -------------------------- event generator steps --------------------- *)

\* One call of generate_and_route_events().
generate_and_route_events(chosen_user, logout, failure, event_type) ==
    /\ \E new_ip \in IF generator.AVAILABLE_INTERNAL_IPS = {} THEN {None}
                      ELSE generator.AVAILABLE_INTERNAL_IPS :
          generator' = generate_and_route_events_state(generator, chosen_user, logout,
                                                       failure, event_type, new_ip)
    /\ UNCHANGED << now, lag, store, audit, runVars, answers, issued, calls, sideVars,
                    message, logging, runs, tool_results, gate, invocations >>

(* ---------------------------- specifications -------------------------- *)

\* One run of the workflow with every backend call succeeding.
Next ==
    \/ Tick
    \/ \E a \in Alerts : RunAgent(a)
    \/ \E g \in Gatherers : gatherer_start(g)
    \/ \E g \in Gatherers : gatherer_finish(g)
    \/ decision_start
    \/ DecideFalsePositive
    \/ \E u \in AgentUserIds : DecideEscalate(u)
    \/ run_log_false_positive
    \/ escalate_upload
    \/ escalate_loop_test
    \/ escalate_exists
    \/ escalate_wake
    \/ escalate_download
    \/ escalate_log_human
    \/ escalate_delete_request
    \/ escalate_delete_response
    \/ escalate_timeout_log
    \/ escalate_timeout_cleanup
    \/ \E body \in Responses : ApproverWrite(body)

Spec == Init /\ [][Next]_vars

\* One run of the workflow in which backend calls may fail.
NextFaults ==
    \/ Next
    \/ \E g \in Gatherers : gatherer_fails(g)
    \/ blob_operation_fails
    \/ log_human_decision_fails
    \/ log_false_positive_fails

SpecFaults == Init /\ [][NextFaults]_vars

\* Invocations of create_rich_ticket_id at any clock reading.
NextTicket ==
    \/ Tick
    \/ \E u \in UserIdArgs : create_rich_ticket_id_tool(u)

SpecTicket == Init /\ [][NextTicket]_vars

\* Invocations of the two audit tools.
NextAudit ==
    \/ \E c \in HumanCalls : log_human_decision_tool(c)
    \/ \E c \in FalsePositiveCalls : log_false_positive_tool(c)

SpecAudit == Init /\ [][NextAudit]_vars

\* One run of the workflow from the inbound message up to the upload of the
\* escalation request, every backend call succeeding.
NextAdapter ==
    \/ Tick
    \/ \E raw_text \in RawTexts, uuid \in Uuid12 : stream_query(raw_text, uuid)
    \/ \E g \in Gatherers : gatherer_start(g)
    \/ \E g \in Gatherers : gatherer_finish(g)
    \/ decision_start
    \/ DecideFalsePositive
    \/ \E u \in AgentUserIds : DecideEscalate(u)
    \/ run_log_false_positive
    \/ escalate_upload

SpecAdapter == Init /\ [][NextAdapter]_vars

\* Tool calls passing through forbidden_dml_check.
NextGuard ==
    \E tool \in ToolNames, args \in ToolArgs : before_tool_callback(tool, args)

SpecGuard == Init /\ [][NextGuard]_vars

\* get_session calls of two callers for one (app, user), in any interleaving.
NextSession ==
    \E p \in Callers :
        \/ \E session_id \in SessionIds : get_session(p, session_id)
        \/ list_sessions(p)
        \/ proxied_get_session(p)
        \/ create_session(p)

SpecSession == Init /\ [][NextSession]_vars

\* Two escalate_to_human runs on one bucket, in any interleaving.
NextMailbox ==
    \/ \E r \in Runs, ticket \in RunTickets : run_call(r, ticket)
    \/ \E r \in Runs : run_upload(r)
    \/ \E r \in Runs, in_budget \in BOOLEAN : run_poll(r, in_budget)
    \/ \E r \in Runs : run_download(r)
    \/ \E r \in Runs : run_log(r)
    \/ \E r \in Runs : run_delete(r)
    \/ \E r \in Runs, body \in Responses : run_answer(r, body)

SpecMailbox == Init /\ [][NextMailbox]_vars

\* One run of the workflow that the caller may cancel while it polls.
NextCancel ==
    \/ Next
    \/ external_cancel

SpecCancel == Init /\ [][NextCancel]_vars

\* One run of the workflow, up to the upload of the escalation request, with
\* the evidence and report tools called and their backends failing at will.
NextEvidence ==
    \/ \E a \in Alerts : RunAgent(a)
    \/ \E g \in Gatherers : gatherer_start(g)
    \/ \E g \in Gatherers : gatherer_finish(g)
    \/ decision_start
    \/ \E tool \in EvidenceTools, gcs_uri \in UriArgs, backend \in Backends :
          evidence_tool_call(tool, gcs_uri, backend)
    \/ DecideFalsePositive
    \/ \E u \in AgentUserIds : DecideEscalate(u)
    \/ run_log_false_positive
    \/ escalate_upload

SpecEvidence == Init /\ [][NextEvidence]_vars

\* One run of the workflow with the decision agent's reading of its inputs
\* made explicit.
NextDecision ==
    \/ Tick
    \/ \E a \in Alerts : RunAgent(a)
    \/ \E g \in Gatherers : gatherer_start(g)
    \/ \E g \in Gatherers : gatherer_finish(g)
    \/ decision_start
    \/ \E investigation \in Investigations, findings \in Findings :
          decision_assess(investigation, findings)
    \/ decision_false_positive
    \/ \E u \in AgentUserIds : decision_escalate(u)
    \/ run_log_false_positive
    \/ escalate_upload

SpecDecision == Init /\ [][NextDecision]_vars

\* Sequential calls of setup_logging (at import of agent.py, in agent_runner's
\* main) and of log_agent_event.
NextLogging ==
    \/ \E client_ok \in BOOLEAN : setup_logging(client_ok)
    \/ \E msg \in LogMessages : log_agent_event(msg)

SpecLogging == Init /\ [][NextLogging]_vars

\* The steps of escalate_to_human after the upload.
escalate_step ==
    \/ escalate_loop_test
    \/ escalate_exists
    \/ escalate_wake
    \/ escalate_download
    \/ escalate_log_human
    \/ escalate_delete_request
    \/ escalate_delete_response
    \/ escalate_timeout_log
    \/ escalate_timeout_cleanup

\* One run of the workflow in which the clock advances and the thread running
\* escalate_to_human is scheduled: time.sleep returns, and every store and
\* audit operation returns.  The approver is under no obligation.
SpecLive == Spec /\ WF_vars(Tick) /\ WF_vars(escalate_step)

\* Calls of the two tools that take an evidence reference.
NextUri ==
    \E tool \in UriTools, gcs_uri \in UriTexts : uri_tool_call(tool, gcs_uri)

SpecUri == Init /\ [][NextUri]_vars

\* Calls of create_rich_ticket_id with any user_id text at any clock reading.
NextTicketId ==
    \/ Tick
    \/ \E u \in UserIdTexts : create_rich_ticket_id_call(u)

SpecTicketId == Init /\ [][NextTicketId]_vars

\* Invocations of stream_query, one after another, with every message shape
\* and with session creation or the agent run failing at will.
NextStream ==
    \E m \in Messages, uuid12 \in Uuid12, uuid8 \in Uuid8, failure \in Failures :
        stream_query_call(m, uuid12, uuid8, failure)

SpecStream == Init /\ [][NextStream]_vars

\* Calls of generate_and_route_events(), one after another, with every draw.
NextGenerator ==
    \E chosen_user \in BENIGN_USERS, logout \in BOOLEAN, failure \in BOOLEAN,
       event_type \in ACTIVITY_EVENT_TYPES :
        generate_and_route_events(chosen_user, logout, failure, event_type)

SpecGenerator == Init /\ [][NextGenerator]_vars

(* ------------------------------- claims ------------------------------- *)

Done == pc = "done"

\* The run ended inside or after escalate_to_human.
EscalationEnded == Done /\ ticket_id # ""

TimeoutRow == HumanDecisionRow(alert_payload, TIMEOUT_DECISION, "N/A", AGENT_REASON)

RequestLeft == blob_exists(request_filename(ticket_id))

ResponseLeft == blob_exists(response_filename(ticket_id))

\* C1: when the approver writes a well-formed response (and nothing else) at a
\* moment at which fewer than 300 seconds have passed since polling started and
\* the loop has not been left, the call returns the human-response result and
\* not the timeout result.
C1_ResponseWithinBudgetResolvesByHuman ==
    (EscalationEnded /\ answers.good_in_budget /\ ~answers.bad)
        => /\ result = HumanResult(human_decision)
           /\ result # TIMEOUT_RESULT

\* C2: when no response object is ever written, the call ends by timeout: one
\* log_human_decision call and one audit row, both with 'Event not categorized
\* in time', the request object deleted, no delete of a response object
\* attempted, the timeout result returned, and not before the budget elapsed.
C2_NoResponseEndsByTimeout ==
    (EscalationEnded /\ answers.writes = 0)
        => /\ result = TIMEOUT_RESULT
           /\ raised = ""
           /\ logCalls = << [human_decision |-> TIMEOUT_DECISION, inserted |-> TRUE] >>
           /\ audit = << TimeoutRow >>
           /\ audit[1].human_decision = "Event not categorized in time"
           /\ ~RequestLeft
           /\ respDeletes = 0
           /\ now - start_time >= timeout_seconds

\* C2 witness: a run that timed out with no response ever written.
C2_Witness ==
    /\ EscalationEnded
    /\ answers.writes = 0
    /\ result = TIMEOUT_RESULT
    /\ Len(audit) = 1

\* C3: once a run of escalate_to_human has returned (human result or timeout
\* result), neither the request object nor a response object written before
\* the return is in the store.
C3_NoMailboxObjectOutlivesRun ==
    (EscalationEnded /\ raised = "" /\ ~answers.late)
        => ~RequestLeft /\ ~ResponseLeft

\* C4: a run of escalate_to_human that has ended has invoked log_human_decision
\* exactly once (with the approver's decision or with the timeout marker).
C4_ExactlyOneTerminalAuditWrite ==
    EscalationEnded => Len(logCalls) = 1

\* C5: when the processing of an alert has ended, normally or through a
\* failure, the audit table holds exactly one row for it.
C5_ExactlyOneTerminalOutcome ==
    Done => Len(audit) = 1

\* C6: when the response object the poll found cannot be parsed as a JSON
\* object, the run does not end with an exception: it ends with the timeout
\* result, the timeout audit row written and the request object deleted.
C6_MalformedResponseFallsThroughToTimeout ==
    (EscalationEnded /\ downloaded # NoText /\ ~WellFormed(downloaded))
        => /\ raised = ""
           /\ result = TIMEOUT_RESULT
           /\ audit = << TimeoutRow >>
           /\ ~RequestLeft

\* C7: when a blob-store call of escalate_to_human has failed, the run still
\* ends in a terminal audit state: no exception reaches the caller and the
\* audit write for the ticket has been made.
C7_StoreFailureTreatedAsTimeout ==
    (EscalationEnded /\ faults > 0 /\ \A i \in DOMAIN logCalls : logCalls[i].inserted)
        => /\ raised = ""
           /\ Len(logCalls) = 1
           /\ Len(audit) = 1

Range(f) == { f[i] : i \in DOMAIN f }

\* C8: a log_human_decision invocation whose arguments equal those of an
\* earlier invocation leaves the audit table as it was.
C8_AuditUpdateIdempotent ==
    [][ \A c \in HumanCalls :
          (log_human_decision_tool(c) /\ c \in Range(calls)) => audit' = audit ]_vars

\* C9: every audit row that carries a human decision (or the timeout marker)
\* is preceded in the table by an initial agent-decision row of the same alert,
\* one with agent_decision = PERCEIVED_THREAT and no human decision.
C9_InitialWritePrecedesHumanDecision ==
    \A i \in DOMAIN audit :
        audit[i].human_decision # None
            => \E j \in 1..(i - 1) :
                  /\ audit[j].alert_payload = audit[i].alert_payload
                  /\ audit[j].agent_decision = "PERCEIVED_THREAT"
                  /\ audit[j].human_decision = None

\* C10: the ticket ids returned by any two invocations of create_rich_ticket_id
\* are distinct.
C10_TicketIdsGloballyUnique ==
    \A i, j \in DOMAIN issued : i # j => issued[i] # issued[j]

\* C11: a ticket id returned by create_rich_ticket_id is never equal to the
\* ticket reference the caller supplied in the inbound text.
C11_TicketIdNeverEqualsPlaceholder ==
    \A i \in DOMAIN issued : issued[i] # initial_state.ticket_id

Finished(g) == agents[g] \in {"done", "failed"}

\* C13: the decision agent has not started unless both gatherers have
\* finished (a join); and while the investigation runs, a gatherer that has
\* not started can start and one that is running can finish whatever the
\* state of the other gatherer.
C13_DecisionStartsAfterBothGatherers ==
    /\ agents["decision_agent"] # "idle" => \A g \in Gatherers : Finished(g)
    /\ pc \notin {"idle", "investigate", "done"} => agents["decision_agent"] # "idle"
    /\ \A g \in Gatherers :
          /\ (pc = "investigate" /\ agents[g] = "idle") => ENABLED gatherer_start(g)
          /\ (pc = "investigate" /\ agents[g] = "running") => ENABLED gatherer_finish(g)

\* C13 witness: the decision agent runs, both gatherers having finished.
C13_Witness ==
    /\ pc = "decide"
    /\ agents["decision_agent"] = "running"
    /\ \A g \in Gatherers : agents[g] = "done"

\* The leading run of word characters.
RECURSIVE WordRun(_)
WordRun(s) ==
    IF s = << >> \/ ~WordChar(Head(s)) THEN << >>
    ELSE <<Head(s)>> \o WordRun(Tail(s))

\* The query's leading keyword, after any leading whitespace and in any
\* letter case, is one of UPDATE, DELETE, MERGE, TRUNCATE.
BeginsWithDml(q) == upper(WordRun(lstrip(q))) \in forbidden_dml

Returned(p) == callers[p].pc = "idle" /\ callers[p].n > 0

\* The largest of a non-empty sequence of session ids: the id created last.
MostRecent(l) == CHOOSE m \in Range(l) : \A k \in Range(l) : k <= m

\* C15: a get_session call that found sessions in the listing returned the
\* most recently created of them, which is the last-listed one.
C15_ReturnsMostRecentSession ==
    \A p \in Callers :
        (Returned(p) /\ callers[p].sessions_list # << >>)
            => /\ callers[p].session = MostRecent(callers[p].sessions_list)
               /\ callers[p].session =
                      callers[p].sessions_list[Len(callers[p].sessions_list)]

\* No get_session call has overlapped another.
Sequential == \A p \in Callers : ~callers[p].overlapped

\* C16: as long as the get_session calls have not overlapped, at most one
\* session has been created, a session is created only by a call that got an
\* empty listing, and every call that has returned returned that one session.
C16_SequentialCallsCreateOneSession ==
    /\ Sequential
          => /\ Len(sessions) <= 1
             /\ \A p \in Callers :
                   Returned(p) => sessions = <<callers[p].session>>
    /\ \A p \in Callers : callers[p].pc = "create" => callers[p].sessions_list = << >>

\* C16 witness: both callers have called twice, one call after the other, and
\* hold the one session.
C16_Witness ==
    /\ Sequential
    /\ \A p \in Callers : Returned(p) /\ callers[p].n = 2 /\ callers[p].session = 1
    /\ sessions = <<1>>

\* C17: when both callers got an empty listing and both calls have returned,
\* the user has two sessions, one created by each.
C17_BothEmptyListingsCreateTwoSessions ==
    (\A p \in Callers : callers[p].empty_seen /\ callers[p].pc \in {"idle", "get"})
        => /\ Len(sessions) = 2
           /\ sessions[1] # sessions[2]

\* C17 witness: two overlapping calls that both got an empty listing have
\* returned and left two sessions.
C17_Witness ==
    /\ \A p \in Callers : Returned(p) /\ callers[p].empty_seen /\ callers[p].overlapped
    /\ Len(sessions) = 2
    /\ callers["c1"].session # callers["c2"].session

\* C18: no row of the audit table has a null user_id, whatever the alert
\* payload the audit tools were given.
C18_NoNullUserId ==
    \A i \in DOMAIN audit : audit[i].user_id # None

\* escalate_to_human has read a well-formed response and logged it.
HumanPathLogged ==
    WellFormed(downloaded) /\ pc \in {"delete_request", "delete_response", "done"}

\* C19: on the human path the one audit row has agent_decision =
\* PERCEIVED_THREAT, and its human_decision and human_reason are the
\* human_decision and human_comment fields of the response that was read,
\* 'No decision found.' and '' standing in for an absent field.
C19_HumanRowCarriesAnswer ==
    HumanPathLogged
        => /\ Len(audit) = 1
           /\ audit[1].agent_decision = "PERCEIVED_THREAT"
           /\ audit[1].human_decision =
                 IF "human_decision" \in DOMAIN downloaded.fields
                 THEN downloaded.fields["human_decision"] ELSE "No decision found."
           /\ audit[1].human_reason =
                 IF "human_comment" \in DOMAIN downloaded.fields
                 THEN downloaded.fields["human_comment"] ELSE ""

\* C19 witness: a run ended on the human path after reading a response that
\* has a comment and no decision.
C19_Witness ==
    /\ Done
    /\ downloaded = JsonObject(("human_comment" :> "no verdict"))
    /\ result = HumanResult("No decision found.")
    /\ Len(audit) = 1
    /\ audit[1].human_reason = "no verdict"

\* The run ended with log_false_positive's success result.
FalsePositiveEnded == Done /\ result = FP_OK_RESULT

\* C20: a run that ended on the false-positive path has written exactly one
\* audit row, with agent_decision = FALSE_POSITIVE and null human_decision and
\* human_reason, and no mailbox object was created, read or deleted.
C20_FalsePositiveWritesOneRowOnly ==
    FalsePositiveEnded
        => /\ Len(audit) = 1
           /\ audit[1].agent_decision = "FALSE_POSITIVE"
           /\ audit[1].human_decision = None
           /\ audit[1].human_reason = None
           /\ DOMAIN store = {}
           /\ downloaded = NoText
           /\ respDeletes = 0
           /\ ticket_id = ""

\* C20 witness: a run ended on the false-positive path with its row written.
C20_Witness ==
    /\ FalsePositiveEnded
    /\ audit = << FalsePositiveRow(alert_payload, AGENT_COMMENT) >>

\* The two mailbox object names of a ticket.
MailboxNames(ticket) == {request_filename(ticket), response_filename(ticket)}

\* Run r has uploaded its request and not yet deleted it.
HoldsRequest(r) == runs[r].pc \in {"poll", "download", "log_human", "timeout_log",
                                   "delete_request", "timeout_cleanup"}

\* C21: the names of distinct tickets are disjoint (request and response names
\* alike), every object a run has written, checked, read or deleted is one of
\* its own ticket's two objects, and while runs work on distinct tickets each
\* run's request object stays in place, with its ticket id, until that run
\* deletes it.
C21_MailboxPartitionedByTicket ==
    /\ \A t1, t2 \in RunTickets :
          t1 # t2 => MailboxNames(t1) \cap MailboxNames(t2) = {}
    /\ \A r \in Runs : runs[r].touched \subseteq MailboxNames(runs[r].ticket_id)
    /\ \A r1, r2 \in Runs :
          (r1 # r2 /\ runs[r1].ticket_id # runs[r2].ticket_id /\ HoldsRequest(r1))
              => /\ blob_exists(request_filename(runs[r1].ticket_id))
                 /\ store[request_filename(runs[r1].ticket_id)].fields["ticket_id"]
                       = runs[r1].ticket_id

\* C21 witness: one run has returned on the human path and deleted its two
\* objects while the other run, on another ticket, still polls with its
\* request object in place.
C21_Witness ==
    /\ runs["r1"].pc = "returned"
    /\ runs["r1"].touched = MailboxNames(runs["r1"].ticket_id)
    /\ runs["r2"].pc = "poll"
    /\ runs["r1"].ticket_id # runs["r2"].ticket_id
    /\ DOMAIN store = {request_filename(runs["r2"].ticket_id)}

\* C22: when the caller cancels a run of escalate_to_human that is polling,
\* the run ends without its request object left in the store.
C22_CancelledRunLeavesNoRequest ==
    (Done /\ raised = "KeyboardInterrupt") => ~RequestLeft

\* The descriptive text a tool returns when its backend call fails.
FailureText(tool) ==
    IF tool = "get_gcs_uri_for_user"
    THEN "An error occurred while querying for the GCS URI: 503 Service Unavailable"
    ELSE IF tool = "get_visual_analysis_for_user"
    THEN "An error occurred during the visual analysis: 503 Service Unavailable"
    ELSE "Error generating signed URL: 503 Service Unavailable"

\* C23: no exception has left an evidence or report tool: every call whose
\* backend failed returned the tool's descriptive failure text, and the run
\* has not been ended by an exception, so the decision agent starts and the
\* escalation request is uploaded as with healthy backends.
C23_ToolFailuresBecomeText ==
    /\ raised = ""
    /\ \A i \in DOMAIN tool_results :
          /\ tool_results[i].value # None
          /\ (tool_results[i].backend = "error"
               /\ tool_results[i].value \notin
                     { "Invalid GCS URI provided.",
                       "Cannot perform visual analysis. Invalid or missing GCS URI: ",
                       "Cannot perform visual analysis. Invalid or missing GCS URI: " \o NO_EVIDENCE })
                => tool_results[i].value = FailureText(tool_results[i].tool)
    /\ (pc = "investigate" /\ \A g \in Gatherers : agents[g] = "done")
          => ENABLED decision_start
    /\ pc = "upload" => ENABLED escalate_upload

\* C23 witness: the request of an escalation was uploaded in a run in which
\* the evidence query and the signing call had both failed.
C23_Witness ==
    /\ pc = "loop_test"
    /\ RequestLeft
    /\ \E i, j \in DOMAIN tool_results :
          /\ tool_results[i].tool = "get_gcs_uri_for_user"
          /\ tool_results[i].backend = "error"
          /\ tool_results[j].tool = "generate_signed_url"
          /\ tool_results[j].value = FailureText("generate_signed_url")

\* C24: once the decision agent has acted it has selected exactly one of
\* log_false_positive and escalate_to_human, and it has selected
\* escalate_to_human whenever the evidence was not placed in the false
\* positive case or the investigation results were missing or empty.
C24_GateEscalatesUnlessBenign ==
    pc \in {"log_fp", "upload", "loop_test", "done"} =>
        /\ Len(gate.selected) = 1
        /\ gate.selected[1] \in {"log_false_positive", "escalate_to_human"}
        /\ (gate.findings # "false_positive" \/ gate.investigation \in {"empty", "missing"})
              => gate.selected = << "escalate_to_human" >>

\* The index of the first "{" of a text, 0 when it has none.
FirstBrace(text) ==
    IF \E i \in DOMAIN text : text[i] = "{"
    THEN CHOOSE i \in DOMAIN text : text[i] = "{" /\ \A j \in 1..(i - 1) : text[j] # "{"
    ELSE 0

\* C25: the text passed to the workflow is the inbound text from its first
\* "{" to its end, and the whole inbound text when it has no "{".
C25_PayloadIsSuffixFromFirstBrace ==
    message.received =>
        IF FirstBrace(message.raw_text) = 0
        THEN message.new_message = message.raw_text
        ELSE /\ Len(message.new_message) = Len(message.raw_text) - FirstBrace(message.raw_text) + 1
             /\ \A k \in DOMAIN message.new_message :
                   message.new_message[k] = message.raw_text[k + FirstBrace(message.raw_text) - 1]
             /\ message.new_message[1] = "{"

\* C25 witness: a text with two "{" was cut at the first one, and a run began
\* on it.
C25_Witness ==
    /\ message.received
    /\ message.raw_text = <<"a","{","b","{","c","}">>
    /\ message.new_message = <<"{","b","{","c","}">>
    /\ pc = "decide"

\* C26: every invocation of an audit tool, whatever its alert_payload string
\* (JSON object, JSON that is no object, or no JSON at all), built its row and
\* wrote it, and the row's alert_payload is the string passed in.
C26_RowKeepsAlertPayload ==
    /\ Len(audit) = Len(calls)
    /\ \A i \in DOMAIN calls :
          /\ audit[i] = [ audit[i] EXCEPT !.alert_payload = calls[i].alert_payload ]
          /\ audit[i].alert_payload = calls[i].alert_payload

\* C26 witness: rows were written for a payload that is no JSON and for one
\* that is JSON but no object.
C26_Witness ==
    \E i, j \in DOMAIN audit :
        /\ calls[i].alert_payload = NotJson /\ audit[i].alert_payload = NotJson
        /\ calls[j].alert_payload = JsonArray /\ audit[j].alert_payload = JsonArray

AuditKeys ==
    { "transaction_window_end", "user_id", "device_id", "source_ip",
      "total_2_min_threat_score", "alert_payload", "agent_decision", "agent_reason",
      "human_decision", "human_reason" }

RequestKeys == { "timestamp", "ticket_id", "context_for_human", "agent_reason_for_escalation" }

\* C27: every audit row has exactly the ten keys of the audit table, and
\* every request object in the store is an object of exactly the four request
\* keys whose ticket_id is the ticket id of its name.
C27_RowAndRequestSchemas ==
    /\ \A i \in DOMAIN audit : DOMAIN audit[i] = AuditKeys
    /\ \A t \in Range(issued) \cup {ticket_id} :
          blob_exists(request_filename(t)) =>
              /\ store[request_filename(t)].type = "object"
              /\ DOMAIN store[request_filename(t)].fields = RequestKeys
              /\ store[request_filename(t)].fields["ticket_id"] = t

\* C27 witness: a human decision row has been written while the request
\* object of the run is still in the store.
C27_Witness ==
    /\ pc = "delete_request"
    /\ RequestLeft
    /\ Len(audit) = 1
    /\ audit[1].human_decision = "Confirmed Threat"

\* C28: after any number of sequential calls of setup_logging the cloud
\* handler is attached to the 'cymbal-cyber-agent' logger exactly once when a
\* call has completed (and not at all before), and a call made after a
\* completed one changes nothing but the count of calls.
C28_SetupLoggingIdempotent ==
    /\ [](logging.handlers = IF logging._logging_setup_complete THEN 1 ELSE 0)
    /\ [][ (logging._logging_setup_complete /\ logging'.setups # logging.setups)
            => logging' = [ logging EXCEPT !.setups = @ + 1, !.early = @ + 1 ] ]_vars

\* C28 witness: setup_logging was called again after a completed call, and a
\* record was emitted afterwards through the one handler of the logger.
C28_Witness ==
    /\ logging._logging_setup_complete
    /\ logging.early >= 1
    /\ logging.handlers = 1
    /\ \E i \in DOMAIN logging.emitted : logging.emitted[i].copies = 2

\* The run is in the polling loop of escalate_to_human.
Polling == pc \in {"loop_test", "exists", "sleep"}

\* C29: in escalate_to_human the request is in the store at every existence
\* check; on the human path the response is read, then the audit row written,
\* then the request deleted, then the response deleted, then the result
\* returned; on the timeout path the audit row is written before the request
\* is deleted; and no mailbox object is deleted before log_human_decision
\* has been invoked.
C29_EscalationStepOrder ==
    /\ Polling => (RequestLeft /\ Len(logCalls) = 0 /\ respDeletes = 0)
    /\ polls >= 1 => Escalated
    /\ pc = "log_human" =>
          (downloaded # NoText /\ Len(logCalls) = 0 /\ RequestLeft /\ ResponseLeft)
    /\ pc = "delete_request" =>
          (Len(logCalls) = 1 /\ RequestLeft /\ ResponseLeft /\ respDeletes = 0)
    /\ pc = "delete_response" =>
          (Len(logCalls) = 1 /\ ~RequestLeft /\ respDeletes = 0 /\ result = None)
    /\ pc = "timeout_log" => (Len(logCalls) = 0 /\ RequestLeft)
    /\ pc = "timeout_cleanup" => (Len(logCalls) = 1 /\ RequestLeft)
    /\ (Escalated /\ (~RequestLeft \/ respDeletes > 0)) => Len(logCalls) >= 1
    /\ respDeletes > 0 => ~RequestLeft

\* C29 witness: on the human path the row is written and the request deleted,
\* the response not yet.
C29_Witness ==
    /\ pc = "delete_response"
    /\ Len(audit) = 1
    /\ ~RequestLeft
    /\ ResponseLeft

\* C30: escalate_to_human checks for the response at least once before it
\* times out, consecutive checks are at least poll_interval seconds apart, a
\* check is started only while fewer than timeout_seconds seconds have passed
\* since the upload, so there are at most 150 checks, and the timeout path is
\* taken, and the timeout result returned, only when timeout_seconds seconds
\* have passed.
C30_PollingBudget ==
    /\ [](pc \in {"timeout_log", "timeout_cleanup"} => polls >= 1)
    /\ [](result = TIMEOUT_RESULT => (polls >= 1 /\ now - start_time >= 300))
    /\ []((pc = "exists" /\ polls >= 1) => now >= wake)
    /\ [](polls <= 150)
    /\ [][ (pc = "loop_test" /\ pc' = "exists") => now - start_time < 300 ]_vars
    /\ [][ (pc = "loop_test" /\ pc' = "timeout_log") => now - start_time >= 300 ]_vars
    /\ [][ polls' # polls => (polls' = polls + 1 /\ pc = "exists"
                               /\ now - start_time < 300 + lag) ]_vars

\* C30 witness: a run that checked 150 times has returned the timeout result.
C30_Witness ==
    /\ result = TIMEOUT_RESULT
    /\ polls = 150
    /\ now - start_time >= 300

\* C31: every run of escalate_to_human that has uploaded its request
\* eventually returns the human-response result or the timeout result,
\* whatever the approver writes and whenever.
C31_EscalationReturnsAResult ==
    (pc = "loop_test" /\ polls = 0)
        ~> (Done /\ raised = "" /\ result \in {TIMEOUT_RESULT, HumanResult(human_decision)})

\* Every run of escalate_to_human comes to an end (by return or by exception).
EscalationTerminates == (pc = "loop_test" /\ polls = 0) ~> Done

\* C32: when escalate_to_human has returned the human-response result or the
\* timeout result, both of which say that the decision was logged, the audit
\* table holds a row for the alert with that human_decision, and no insert of
\* the run has failed.
C32_LoggedResultHasAuditRow ==
    /\ (Done /\ raised = "" /\ ticket_id # "" /\ result = TIMEOUT_RESULT)
          => /\ \E i \in DOMAIN audit :
                   /\ audit[i].human_decision = TIMEOUT_DECISION
                   /\ audit[i].alert_payload = alert_payload
             /\ \A i \in DOMAIN logCalls : logCalls[i].inserted
    /\ (Done /\ raised = "" /\ ticket_id # "" /\ result = HumanResult(human_decision))
          => /\ \E i \in DOMAIN audit :
                   /\ audit[i].human_decision = human_decision
                   /\ audit[i].alert_payload = alert_payload
             /\ \A i \in DOMAIN logCalls : logCalls[i].inserted

\* C33: get_visual_analysis_for_user and generate_signed_url reach their
\* backend only with an argument that starts with "gs://", and the reference
\* the backend gets is that argument; for every other argument they return
\* their rejection text and the backend is not called.
C33_BackendGetsExactReference ==
    \A i \in DOMAIN tool_results :
        /\ tool_results[i].called =>
              /\ StartsWith(tool_results[i].gcs_uri, GS_SCHEME)
              /\ tool_results[i].reference = tool_results[i].gcs_uri
        /\ ~StartsWith(tool_results[i].gcs_uri, GS_SCHEME) =>
              /\ ~tool_results[i].called
              /\ tool_results[i].value \in
                    { REJECTED_SIGNING, REJECTED_VISUAL \o Join(tool_results[i].gcs_uri) }

\* The length of the longest prefix of a text made of letters, digits and dots.
PrefixLen(u) ==
    CHOOSE k \in 0..Len(u) :
        /\ \A i \in 1..k : u[i] \in Lower \cup Upper \cup Digit \cup {"."}
        /\ k < Len(u) => u[k + 1] \notin Lower \cup Upper \cup Digit \cup {"."}

\* The characters of the <clean> part the claim names for an input.
CleanPart(u) ==
    IF u = << >> THEN <<"u","n","k","n","o","w","n","_","u","s","e","r">>
    ELSE IF PrefixLen(u) = 0 THEN <<"i","n","v","a","l","i","d","_","i","d">>
    ELSE SubSeq(u, 1, PrefixLen(u))

\* The decimal digits of a natural number.
RECURSIVE Decimal(_)
Decimal(n) ==
    IF n < 10 THEN << <<"0","1","2","3","4","5","6","7","8","9">>[n + 1] >>
    ELSE Decimal(n \div 10) \o Decimal(n % 10)

\* C34: for every user_id text create_rich_ticket_id returned
\* 'ticket-<clean>-<seconds>', <clean> being the longest leading run of
\* letters, digits and dots of the input, 'unknown_user' for the empty input
\* and 'invalid_id' for an input that starts with another character; every
\* character of the result is a letter, a digit, a dot, an underscore or a
\* hyphen.
C34_TicketIdIsSanitized ==
    \A i \in DOMAIN tool_results :
        LET text == <<"t","i","c","k","e","t","-">> \o CleanPart(tool_results[i].user_id)
                    \o <<"-">> \o Decimal(tool_results[i].timestamp)
        IN  /\ tool_results[i].value = Join(text)
            /\ \A k \in DOMAIN text :
                  text[k] \in Lower \cup Upper \cup Digit \cup {".", "_", "-"}

\* C34 witness: ids were returned for a text that starts with "{", for the empty input and
\* for a user name followed by other characters.
C34_Witness ==
    /\ \E i \in DOMAIN tool_results :
          /\ tool_results[i].user_id = <<"{", "u">>
          /\ tool_results[i].value = "ticket-invalid_id-1"
    /\ \E i \in DOMAIN tool_results :
          tool_results[i].user_id = << >> /\ tool_results[i].value = "ticket-unknown_user-0"
    /\ \E i \in DOMAIN tool_results :
          /\ tool_results[i].user_id = <<"u", ".", "l", "!", "x">>
          /\ tool_results[i].value = "ticket-u.l-1"

\* C35: every call that is not an execute_sql call with a query that begins
\* with UPDATE, DELETE, MERGE or TRUNCATE as a whole word got no override from
\* the callback and was executed: calls of other tools, execute_sql without a
\* query or with an empty one, INSERT and DROP statements, and queries with a
\* forbidden keyword only further on.
C35_OtherCallsPassUnchanged ==
    \A i \in DOMAIN guarded :
        ( \/ guarded[i].tool # "execute_sql"
          \/ "query" \notin DOMAIN guarded[i].args
          \/ ~BeginsWithDml(guarded[i].args["query"]) )
            => /\ guarded[i].result = None
               /\ guarded[i].executed

\* C35 witness: a DROP, a query with DELETE as its second word, and an UPDATE
\* handed to another tool were all let through.
C35_Witness ==
    /\ \E i \in DOMAIN guarded :
          /\ guarded[i].tool = "execute_sql"
          /\ guarded[i].args = ("query" :> <<"d","r","o","p"," ","t">>)
          /\ guarded[i].executed
    /\ \E i \in DOMAIN guarded :
          /\ guarded[i].tool = "execute_sql"
          /\ guarded[i].args = ("query" :> <<"x"," ","d","e","l","e","t","e">>)
          /\ guarded[i].executed
    /\ \E i \in DOMAIN guarded :
          /\ guarded[i].tool = "get_table_info"
          /\ guarded[i].args = ("query" :> <<"u","p","d","a","t","e"," ","t">>)
          /\ guarded[i].result = None

\* C36: get_session ignores its session_id argument: a call that found
\* sessions in the listing returns the first of them, a call that found none
\* returns a session created by that call, and the session a call returned is
\* always one of the sessions of the given (app, user).
C36_SessionIdArgumentIgnored ==
    /\ [](\A p \in Callers : Returned(p) => callers[p].session \in Range(sessions))
    /\ [][ \A p \in Callers :
              (callers[p].pc = "get" /\ callers'[p].pc = "idle")
                  => callers'[p].session = callers[p].sessions_list[1] ]_vars
    /\ [][ \A p \in Callers :
              (callers[p].pc = "create" /\ callers'[p].pc = "idle")
                  => /\ callers'[p].session \notin Range(sessions)
                     /\ callers'[p].session \in Range(sessions') ]_vars
    /\ [][ \A p \in Callers :
              (callers[p].pc = "list" /\ callers'[p].pc = "create")
                  => callers'[p].sessions_list = << >> ]_vars

\* C36 witness: one call passed the id of another user's session and got a
\* newly created session, the other passed the id of the user's second
\* session and got the first-listed one.
C36_Witness ==
    /\ Returned("c1") /\ callers["c1"].session_id = 99 /\ callers["c1"].session = 1
    /\ callers["c1"].sessions_list = << >>
    /\ Returned("c2") /\ callers["c2"].session_id = 2 /\ callers["c2"].session = 1
    /\ callers["c2"].sessions_list = << 1, 2 >>

\* C37: no invocation of stream_query let an exception out: whatever the
\* shape of the message, and whether session creation or the agent run
\* failed, the stream ended with the final response or with one 'Error
\* processing request' text naming the exception; and the session service of
\* an invocation holds no session but the one that invocation created.
C37_StreamQueryContainsFailures ==
    \A i \in DOMAIN invocations :
        /\ ~invocations[i].propagated
        /\ invocations[i].raised = "" => invocations[i].yielded = << FINAL_RESPONSE >>
        /\ invocations[i].raised # "" =>
              invocations[i].yielded = << "Error processing request: " \o invocations[i].raised >>
        /\ ( invocations[i].message.kind \in {"part_not_dict", "text_none"}
              \/ invocations[i].failure # "none" ) => invocations[i].raised # ""
        /\ DOMAIN invocations[i].session_service \subseteq {invocations[i].session_id}
        /\ invocations[i].raised \in {"", "AgentError"} =>
              DOMAIN invocations[i].session_service = {invocations[i].session_id}

\* C37 witness: an invocation whose agent run failed ended with the error
\* text, and the next invocation, with a message that is no dict and the same
\* session id drawn, ran to its final response in a session service of its own.
C37_Witness ==
    /\ Len(invocations) = 2
    /\ invocations[1].message.kind = "text"
    /\ invocations[1].failure = "run_async"
    /\ invocations[1].yielded = << "Error processing request: AgentError" >>
    /\ invocations[2].session_id = invocations[1].session_id
    /\ invocations[2].message.kind = "not_dict"
    /\ invocations[2].yielded = << FINAL_RESPONSE >>

\* The address a user of the generator holds, None when logged out.
HeldIp(g, user) == g.USER_PROFILES[user].current_internal_ip

\* The addresses held by logged-in users.
HeldIps(g) == { HeldIp(g, user) : user \in BENIGN_USERS } \ {None}

\* C38: in the event generator no internal address is held by two logged-in
\* users and no held address is in the pool; a login_success takes exactly one
\* address out of the pool and gives it to the user, a login_failure and a
\* call on an empty pool take none, a logout puts back exactly the user's
\* address, and a network event comes only for a logged-in user, with that
\* user's current internal address as source_ip.
C38_IpPoolIsConsistent ==
    /\ [] ( /\ \A u, v \in BENIGN_USERS :
                  (u # v /\ HeldIp(generator, u) # None) =>
                      HeldIp(generator, u) # HeldIp(generator, v)
            /\ HeldIps(generator) \cap generator.AVAILABLE_INTERNAL_IPS = {} )
    /\ [][ generator'.branch = "login_success" =>
             LET e == generator'.access_event
             IN  /\ e.assigned_internal_ip \in generator.AVAILABLE_INTERNAL_IPS
                 /\ generator'.AVAILABLE_INTERNAL_IPS =
                        generator.AVAILABLE_INTERNAL_IPS \ {e.assigned_internal_ip}
                 /\ HeldIp(generator, e.user_id) = None
                 /\ HeldIp(generator', e.user_id) = e.assigned_internal_ip
                 /\ \A u \in BENIGN_USERS \ {e.user_id} :
                        HeldIp(generator', u) = HeldIp(generator, u)
                 /\ generator'.network_event = NoEvent ]_vars
    /\ [][ generator'.branch = "login_failure" =>
             /\ generator'.AVAILABLE_INTERNAL_IPS = generator.AVAILABLE_INTERNAL_IPS
             /\ generator'.USER_PROFILES = generator.USER_PROFILES
             /\ generator'.access_event.assigned_internal_ip = None
             /\ generator'.network_event = NoEvent ]_vars
    /\ [][ generator'.branch = "no_ip" =>
             /\ generator.AVAILABLE_INTERNAL_IPS = {}
             /\ generator'.AVAILABLE_INTERNAL_IPS = {}
             /\ generator'.USER_PROFILES = generator.USER_PROFILES
             /\ generator'.access_event = NoEvent
             /\ generator'.network_event = NoEvent ]_vars
    /\ [][ generator'.branch = "logout" =>
             \E user \in BENIGN_USERS :
                /\ HeldIp(generator, user) # None
                /\ HeldIp(generator', user) = None
                /\ generator'.AVAILABLE_INTERNAL_IPS =
                       generator.AVAILABLE_INTERNAL_IPS \cup {HeldIp(generator, user)}
                /\ \A u \in BENIGN_USERS \ {user} :
                       HeldIp(generator', u) = HeldIp(generator, u) ]_vars
    /\ [][ generator'.network_event # NoEvent =>
             /\ generator'.branch = "network"
             /\ HeldIp(generator, generator'.network_event.user_id) # None
             /\ generator'.network_event.source_ip =
                    HeldIp(generator', generator'.network_event.user_id)
             /\ generator'.USER_PROFILES = generator.USER_PROFILES
             /\ generator'.AVAILABLE_INTERNAL_IPS = generator.AVAILABLE_INTERNAL_IPS ]_vars

\* C38 witness: three users hold the three addresses, the pool is empty, and the
\* call for the fourth user came back without an event.
C38_Witness ==
    /\ generator.branch = "no_ip"
    /\ generator.AVAILABLE_INTERNAL_IPS = {}
    /\ HeldIps(generator) = INTERNAL_IPS
    /\ \E user \in BENIGN_USERS : HeldIp(generator, user) = None

====
